---- MODULE Spec2Model ----
(***************************************************************************)
(* A model of pyksnk's MOR dictionary engine (src/pyksnk/mordict.py):      *)
(* the typed nodes, their serialization (dump_mordict), the Lark grammar   *)
(* with its transformer (parse), and the lookup of a Cat by key.           *)
(*                                                                         *)
(* Text is a sequence of one-character strings, so that what is written to *)
(* a sink and what the lexer reads are compared character by character.    *)
(***************************************************************************)
EXTENDS Integers, Sequences, FiniteSets, TLC

VARIABLES
    pc,             \* position of the driver: what has been done so far
    entry,          \* the Lex_Entry under work
    dic,            \* the Dictionary under work
    with_comments,  \* the with_comments argument of dump_mordict
    seekable,       \* buffer.seekable() of the sink
    buffer,         \* the text held by the sink
    text,           \* the source text handed to parse
    parsed,         \* what parse returned (a Dictionary or an error)
    out,            \* the text of the second serialization
    source,         \* the layout of the source text: its items and comments
    lookup,         \* what iterating Cat[key] yields
    left,           \* the first operand of a comparison
    right,          \* the second operand of a comparison
    df,             \* a table of entries (a pandas DataFrame)
    result          \* what the operation under work returned

vars == <<pc, entry, dic, with_comments, seekable, buffer, text, parsed, out, source,
          lookup, left, right, df, result>>

\* the variables of the serializer and the parser
text_vars == <<entry, dic, with_comments, seekable, buffer, text, parsed, out, source,
               lookup>>
\* the variables of the comparisons and the tables
value_vars == <<left, right, df, result>>

(***************************************************************************)
(* Bounds of the model.                                                    *)
(***************************************************************************)
\* the largest number of comments anchored inside one document
MaxComments == 1
\* the largest number of [key value] brackets of a Cat built by a program
MaxAttrVals == 1
\* the largest number of brackets of a Cat that is looked up by key
MaxLookupAttrVals == 3
\* the largest number of brackets of a Cat in a source text
MaxSrcAttrVals == 1
\* the largest number of value tokens inside one bracket of a source text
MaxSrcTokens == 2
\* the largest number of entries of a Dictionary that is turned into a table
MaxEntries == 2
\* the largest integer random.randint draws (sys.maxsize in the code)
MaxRand == 2
\* the largest number of rows of a table that is masked
MaxMaskRows == 2
\* the largest number of cells of one column of a sentence
MaxCells == 2
\* the largest number of alternative analyses of one word
MaxAlts == 3
\* the largest number of lines of a text that is parsed as a whole
MaxLines == 3
\* the largest number of line ends that the indenter is handed
MaxNewlines == 3
\* the largest number of paths given to the lint command
MaxFiles == 2

(***************************************************************************)
(* Characters and text helpers.                                            *)
(***************************************************************************)
TAB == "\t"
NL == "\n"
CR == "\r"
SP == " "
FF == "\f"

None == [none |-> TRUE]

Last(s) == s[Len(s)]

RECURSIVE Flatten(_)
\* "".join(parts): the concatenation of a list of texts
Flatten(parts) ==
    IF parts = <<>> THEN <<>> ELSE Head(parts) \o Flatten(Tail(parts))

RECURSIVE JoinSpace(_)
\* " ".join(tokens)
JoinSpace(toks) ==
    IF toks = <<>> THEN <<>>
    ELSE IF Len(toks) = 1 THEN Head(toks)
    ELSE Head(toks) \o <<SP>> \o JoinSpace(Tail(toks))

RECURSIVE Count(_, _)
\* the number of occurrences of the character c in the text s
Count(c, s) ==
    IF s = <<>> THEN 0
    ELSE (IF Head(s) = c THEN 1 ELSE 0) + Count(c, Tail(s))

\* all sequences over S of length at most n
SeqUpTo(S, n) == UNION { [1..k -> S] : k \in 0..n }

(***************************************************************************)
(* The node classes.  A node is a record; `kind` is its Python class.      *)
(* The position (meta) of a node plays no part in serialization.           *)
(***************************************************************************)
Comment(v) == [kind |-> "Comment", value |-> v, comments |-> <<>>]
Phon(v, cs) == [kind |-> "Phon", value |-> v, comments |-> cs]
Sem(v, cs) == [kind |-> "Sem", value |-> v, comments |-> cs]
Gloss(v, cs) == [kind |-> "Gloss", value |-> v, comments |-> cs]
Preamble(v, cs) == [kind |-> "Preamble", value |-> v, comments |-> cs]

\* The value of a Cat_AttrVal is a str or a list of str: `islist` is the
\* answer of isinstance(value, list); a str is held as the single member of
\* `toks`.
StrValue(s) == [islist |-> FALSE, toks |-> <<s>>]
ListValue(l) == [islist |-> TRUE, toks |-> l]
Cat_AttrVal(k, v, cs) == [kind |-> "Cat_AttrVal", key |-> k, value |-> v, comments |-> cs]
Cat(avs, cs) == [kind |-> "Cat", attrvals |-> avs, comments |-> cs]

Lex_Entry(p, c, s, g, en, cs) ==
    [kind |-> "Lex_Entry", phon |-> p, cat |-> c, sem |-> s, gloss |-> g,
     enabled |-> en, comments |-> cs]

Dictionary(nm, cs, pre, cont) ==
    [kind |-> "Dictionary", name |-> nm, comments |-> cs, preambles |-> pre,
     contents |-> cont]

\* the class attributes delimiter_beginning, delimiter_end and is_omittable
delimiter_beginning(kind) ==
    CASE kind = "Comment" -> <<"%", SP>>
      [] kind = "Phon" -> <<>>
      [] kind = "Cat_AttrVal" -> <<"[">>
      [] kind = "Cat" -> <<"{">>
      [] kind = "Sem" -> <<"=">>
      [] kind = "Gloss" -> <<"\"">>
      [] kind = "Preamble" -> <<"@">>
      [] kind = "Lex_Entry" -> <<>>

delimiter_end(kind) ==
    CASE kind = "Comment" -> <<NL>>
      [] kind = "Phon" -> <<>>
      [] kind = "Cat_AttrVal" -> <<"]">>
      [] kind = "Cat" -> <<"}">>
      [] kind = "Sem" -> <<"=">>
      [] kind = "Gloss" -> <<"\"">>
      [] kind = "Preamble" -> <<NL>>
      [] kind = "Lex_Entry" -> <<>>

is_omittable(kind) ==
    CASE kind = "Comment" -> TRUE
      [] kind = "Phon" -> FALSE
      [] kind = "Cat" -> FALSE
      [] kind = "Sem" -> TRUE
      [] kind = "Gloss" -> TRUE
      [] kind = "Preamble" -> TRUE

(***************************************************************************)
(* Serialization: dump_mordict.  Every operator takes the text the sink    *)
(* holds and gives the text it holds after the call.                       *)
(***************************************************************************)
\* a serializer that never omits a value
writes_value_always(self) == TRUE

\* the test `(not self.is_omittable) or self.value`
writes_value(self) == (~is_omittable(self.kind)) \/ self.value # <<>>

RECURSIVE SingleFixedValue_dump_mordict(_, _, _)
RECURSIVE dump_comments(_, _)
\* for c in self.comments: c.dump_mordict(buffer, with_comments = True)
dump_comments(buf, cs) ==
    IF cs = <<>> THEN buf
    ELSE dump_comments(SingleFixedValue_dump_mordict(buf, Head(cs), TRUE), Tail(cs))

\* if with_comments: a blank when there are comments, then the comments
dump_anchored(buf, self, with_c) ==
    IF with_c
    THEN dump_comments(IF self.comments # <<>> THEN buf \o <<SP>> ELSE buf,
                       self.comments)
    ELSE buf

SingleFixedValue_dump_mordict(buf, self, with_c) ==
    LET b1 == IF writes_value(self)
              THEN buf \o delimiter_beginning(self.kind) \o self.value
                       \o delimiter_end(self.kind)
              ELSE buf
    IN dump_anchored(b1, self, with_c)

\* the text of the value of a Cat_AttrVal
attrval_value_text(v) == IF v.islist THEN JoinSpace(v.toks) ELSE v.toks[1]

Cat_AttrVal_dump_mordict(buf, self, with_c) ==
    buf \o delimiter_beginning(self.kind) \o self.key \o <<SP>>
        \o attrval_value_text(self.value) \o delimiter_end(self.kind)

RECURSIVE dump_attrvals(_, _, _)
\* for attrval in self.attrvals: attrval.dump_mordict(buffer, with_comments)
dump_attrvals(buf, avs, with_c) ==
    IF avs = <<>> THEN buf
    ELSE dump_attrvals(Cat_AttrVal_dump_mordict(buf, Head(avs), with_c), Tail(avs), with_c)

Cat_dump_mordict(buf, self, with_c) ==
    LET b1 == buf \o delimiter_beginning(self.kind)
        b2 == dump_attrvals(b1, self.attrvals, with_c)
        b3 == b2 \o delimiter_end(self.kind)
    IN dump_anchored(b3, self, with_c)

\* a lookup that stops at the first bracket with the key
Cat_getitem_first(self, key) ==
    LET found == SelectSeq(self.attrvals, LAMBDA item : item.key = key)
    IN IF found = <<>> THEN <<>> ELSE <<Head(found)>>

\* Cat.__getitem__: filter(lambda item: item.key == key, self.attrvals); what
\* iterating the filter object yields, in order
Cat_getitem(self, key) == SelectSeq(self.attrvals, LAMBDA item : item.key = key)

\* a separator written whether or not the item is empty
separator_always(item) == <<SP>>

\* `if self.sem.value: buffer.write(" ")`, and the same for the gloss
separator(item) == IF item.value # <<>> THEN <<SP>> ELSE <<>>

\* the branch `if self.enabled`
dump_enabled(buf, self, with_c) ==
    LET b1 == SingleFixedValue_dump_mordict(buf, self.phon, with_c)
        b2 == b1 \o <<TAB>>
        b3 == Cat_dump_mordict(b2, self.cat, with_c)
        b4 == b3 \o separator(self.sem)
        b5 == SingleFixedValue_dump_mordict(b4, self.sem, with_c)
        b6 == b5 \o separator(self.gloss)
    IN SingleFixedValue_dump_mordict(b6, self.gloss, with_c)

RECURSIVE replace_crlf(_)
\* str.replace("\r\n", " ")
replace_crlf(s) ==
    IF Len(s) < 2 THEN s
    ELSE IF s[1] = CR /\ s[2] = NL THEN <<SP>> \o replace_crlf(SubSeq(s, 3, Len(s)))
    ELSE <<s[1]>> \o replace_crlf(Tail(s))

\* str.replace(c, " ") for a single character c
replace_char(s, c) == [i \in 1..Len(s) |-> IF s[i] = c THEN SP ELSE s[i]]

\* .replace("\r\n", " ").replace("\n", " ").replace("\r", " ")
replace_newlines(s) == replace_char(replace_char(replace_crlf(s), NL), CR)

DISABLED_MARKER == <<"%", SP, "D", "I", "S", "A", "B", "L", "E", "D", ":", SP>>

\* what the branch `else` (a disabled entry) renders into disabled_entry
disabled_entry_text(self, with_c) ==
    LET d1 == SingleFixedValue_dump_mordict(<<>>, self.phon, with_c)
        d2 == Cat_dump_mordict(d1, self.cat, with_c)
        d3 == SingleFixedValue_dump_mordict(d2, self.sem, with_c)
    IN SingleFixedValue_dump_mordict(d3, self.gloss, with_c)

\* what the branch `else` writes to buffer itself before the marker
disabled_direct_writes(self) == <<TAB>> \o separator(self.sem) \o separator(self.gloss)

\* the branch `else`: a disabled entry
dump_disabled(buf, self, with_c) ==
    buf \o disabled_direct_writes(self) \o DISABLED_MARKER
        \o replace_newlines(disabled_entry_text(self, with_c))

\* the comments anchored to the entry itself
dump_entry_comments(buf, self, with_c) ==
    IF with_c THEN dump_comments(buf, self.comments) ELSE buf

\* a closing newline written without look-back
dump_final_newline_unconditional(buf, seek) == buf \o <<NL>>

\* the closing newline: with look-back on a seekable sink, else unconditional
dump_final_newline(buf, seek) ==
    IF seek
    THEN (IF Last(buf) \notin {NL, CR} THEN buf \o <<NL>> ELSE buf)
    ELSE buf \o <<NL>>

Lex_Entry_dump_mordict(buf, self, with_c, seek) ==
    LET b1 == IF self.enabled THEN dump_enabled(buf, self, with_c)
              ELSE dump_disabled(buf, self, with_c)
        b2 == dump_entry_comments(b1, self, with_c)
    IN dump_final_newline(b2, seek)

RECURSIVE dump_items(_, _, _, _)
\* for item in chain(comments, preambles, contents): item.dump_mordict(...)
dump_items(buf, items, with_c, seek) ==
    IF items = <<>> THEN buf
    ELSE LET it == Head(items)
             b1 == IF it.kind = "Lex_Entry"
                   THEN Lex_Entry_dump_mordict(buf, it, with_c, seek)
                   ELSE SingleFixedValue_dump_mordict(buf, it, with_c)
         IN dump_items(b1, Tail(items), with_c, seek)

Dictionary_dump_mordict(buf, self, with_c, seek) ==
    dump_items(buf, self.comments \o self.preambles \o self.contents, with_c, seek)

(***************************************************************************)
(* Parsing: the grammar _grammar read by Lark's LALR parser with its       *)
(* contextual lexer, and the transformer __Transformer.                    *)
(*                                                                         *)
(* The lexer tries, at each position, the terminals the parser accepts     *)
(* there, the longer pattern first; _WS_INLINE is ignored wherever it      *)
(* matches.  A result is a record [ok, pos, val]: pos is the index of the  *)
(* next character to read.                                                 *)
(***************************************************************************)
\* the characters of _WS_INLINE, /[ \t\f]+/
WS_INLINE == {SP, TAB, FF}
\* the characters of _EOL, /(\r\n?|\r?\n)/
EOL_CHARS == {NL, CR}
\* the characters \s of the patterns
WHITESPACE == WS_INLINE \cup EOL_CHARS
\* the characters \w that the texts of the model are made of
WORD_CHARS == {"a", "c", "d", "e", "f", "g", "i", "k", "l", "m", "n", "p",
               "s", "t", "v", "w", "A", "B", "D", "E", "I", "L", "S"}

\* what PHON stops at: /\w[^\s{%]*/
PHON_STOP == WHITESPACE \cup {"{", "%"}
\* what CAT_ATTR and CAT_VALUE stop at: /[^{\[\]%\s]+/
CAT_STOP == WHITESPACE \cup {"{", "[", "]", "%"}
\* what SEM stops at: /[^=%]+/
SEM_STOP == {"=", "%"}
\* what GLOSS stops at: /[^"%]+/
GLOSS_STOP == {"\"", "%"}
\* what COMMENT stops at: /[^\r\n]+/
COMMENT_STOP == EOL_CHARS
\* what PREAMBLE stops at: /[^%\r\n]+/
PREAMBLE_STOP == {"%"} \cup EOL_CHARS

Failure == [ok |-> FALSE]
Success(p, v) == [ok |-> TRUE, pos |-> p, val |-> v]

At(t, i, c) == i <= Len(t) /\ t[i] = c
AtAny(t, i, S) == i <= Len(t) /\ t[i] \in S

RECURSIVE ScanUntil(_, _, _)
\* the end of the longest run from i of characters outside stop
ScanUntil(t, i, stop) ==
    IF i > Len(t) \/ t[i] \in stop THEN i ELSE ScanUntil(t, i + 1, stop)

RECURSIVE ScanWhile(_, _, _)
\* the end of the longest run from i of characters of S
ScanWhile(t, i, S) ==
    IF i > Len(t) \/ t[i] \notin S THEN i ELSE ScanWhile(t, i + 1, S)

\* %ignore _WS_INLINE
skip_ws(t, i) == ScanWhile(t, i, WS_INLINE)
\* _EOL*, with the blanks ignored between the newlines
skip_eols(t, i) == ScanWhile(t, i, WHITESPACE)

RECURSIVE lstrip(_)
lstrip(s) == IF s # <<>> /\ Head(s) \in WHITESPACE THEN lstrip(Tail(s)) ELSE s
RECURSIVE rstrip(_)
rstrip(s) ==
    IF s # <<>> /\ Last(s) \in WHITESPACE THEN rstrip(SubSeq(s, 1, Len(s) - 1)) ELSE s
\* str.strip()
strip(s) == rstrip(lstrip(s))

\* an error raised inside a rule ends the parse: the rest K of the rule reads
\* on from the result r only when r is a match
Then(r, K(_)) == IF r.ok THEN K(r) ELSE Failure

\* adj_comment: "%" COMMENT? _EOL+, read at a '%'
adj_comment(t, i) ==
    LET j == ScanUntil(t, i + 1, COMMENT_STOP)
    IN IF AtAny(t, j, EOL_CHARS)
       THEN Success(skip_eols(t, j), Comment(strip(SubSeq(t, i + 1, j - 1))))
       ELSE Failure

RECURSIVE adj_comments(_, _, _)
\* adj_comment*: acc holds the comments read so far
adj_comments(t, i, acc) ==
    IF At(t, i, "%")
    THEN Then(adj_comment(t, i), LAMBDA r : adj_comments(t, r.pos, Append(acc, r.val)))
    ELSE Success(i, acc)

\* the tail `_EOL* adj_comment*` of an item
item_tail(t, i) == adj_comments(t, skip_eols(t, i), <<>>)

\* item_phon: PHON _EOL* adj_comment*, read at a word character
item_phon(t, i) ==
    LET j == ScanUntil(t, i + 1, PHON_STOP)
    IN Then(item_tail(t, j), LAMBDA tl : Success(tl.pos, Phon(SubSeq(t, i, j - 1), tl.val)))

RECURSIVE item_cat_values(_, _, _)
\* item_cat_values: CAT_VALUE*, up to the closing bracket
item_cat_values(t, i, acc) ==
    LET u == skip_ws(t, i)
        w == ScanUntil(t, u, CAT_STOP)
    IN IF w > u THEN item_cat_values(t, w, Append(acc, SubSeq(t, u, w - 1)))
       ELSE Success(u, acc)

\* a transformer that keeps the list of a single token
item_cat_attrval_value_list(vals) ==
    IF Len(vals) = 0 THEN StrValue(<<>>) ELSE ListValue(vals)

\* the transformer's item_cat_attrval: the shape of the value by arity
item_cat_attrval_value(vals) ==
    IF Len(vals) = 0 THEN StrValue(<<>>)
    ELSE IF Len(vals) = 1 THEN StrValue(vals[1])
    ELSE ListValue(vals)

\* item_cat_attrval: "[" item_cat_attr item_cat_values "]" _EOL* adj_comment*
item_cat_attrval(t, i) ==
    LET q == skip_ws(t, i + 1)
        r == ScanUntil(t, q, CAT_STOP)
    IN IF r = q THEN Failure
       ELSE Then(item_cat_values(t, r, <<>>), LAMBDA vs :
            IF ~At(t, vs.pos, "]") THEN Failure
            ELSE Then(item_tail(t, vs.pos + 1), LAMBDA tl :
                 Success(tl.pos, Cat_AttrVal(SubSeq(t, q, r - 1),
                                             item_cat_attrval_value(vs.val), tl.val))))

RECURSIVE item_cat_attrval_list(_, _, _)
\* item_cat_attrval_list: item_cat_attrval*
item_cat_attrval_list(t, i, acc) ==
    IF At(t, i, "[")
    THEN Then(item_cat_attrval(t, i),
              LAMBDA r : item_cat_attrval_list(t, r.pos, Append(acc, r.val)))
    ELSE Success(i, acc)

\* an item_cat whose brackets stand without braces
item_cat_unbraced(t, i) ==
    Then(item_cat_attrval_list(t, i, <<>>), LAMBDA l :
         Then(item_tail(t, l.pos), LAMBDA tl : Success(tl.pos, Cat(l.val, tl.val))))

\* item_cat: "{" item_cat_attrval_list "}" _EOL* adj_comment*
item_cat(t, i) ==
    IF ~At(t, i, "{") THEN Failure
    ELSE Then(item_cat_attrval_list(t, skip_ws(t, i + 1), <<>>), LAMBDA l :
         IF ~At(t, l.pos, "}") THEN Failure
         ELSE Then(item_tail(t, l.pos + 1), LAMBDA tl :
              Success(tl.pos, Cat(l.val, tl.val))))

\* the transformer's item_sem: the comments are kept only behind a SEM token
item_sem_node(has_token, token, comments) ==
    IF has_token THEN [ok |-> TRUE, val |-> Sem(token, comments)]
    ELSE [ok |-> TRUE, val |-> Sem(<<>>, <<>>)]

\* the transformer's item_gloss: without a GLOSS token, `init_arg.type` is
\* read on the first comment, which has no such attribute
item_gloss_node(has_token, token, comments) ==
    IF has_token THEN [ok |-> TRUE, val |-> Gloss(token, comments)]
    ELSE IF comments # <<>> THEN [ok |-> FALSE]
    ELSE [ok |-> TRUE, val |-> Gloss(<<>>, <<>>)]

\* item_sem: "=" SEM? "=" _EOL* adj_comment*, read at a '='
item_sem(t, i) ==
    LET q == skip_ws(t, i + 1)
        r == ScanUntil(t, q, SEM_STOP)
    IN IF ~At(t, r, "=") THEN Failure
       ELSE Then(item_tail(t, r + 1), LAMBDA tl :
            Then(item_sem_node(r > q, SubSeq(t, q, r - 1), tl.val), LAMBDA n :
                 Success(tl.pos, n.val)))

\* item_gloss: "\"" GLOSS? "\"" _EOL* adj_comment*, read at a '"'
item_gloss(t, i) ==
    LET q == skip_ws(t, i + 1)
        r == ScanUntil(t, q, GLOSS_STOP)
    IN IF ~At(t, r, "\"") THEN Failure
       ELSE Then(item_tail(t, r + 1), LAMBDA tl :
            Then(item_gloss_node(r > q, SubSeq(t, q, r - 1), tl.val), LAMBDA n :
                 Success(tl.pos, n.val)))

\* item_sem?: an absent item leaves the Sem to the default of Lex_Entry
optional_sem(t, i) ==
    IF At(t, i, "=") THEN item_sem(t, i) ELSE Success(i, Sem(<<>>, <<>>))

\* item_gloss?: an absent item leaves the Gloss to the default of Lex_Entry
optional_gloss(t, i) ==
    IF At(t, i, "\"") THEN item_gloss(t, i) ELSE Success(i, Gloss(<<>>, <<>>))

\* line: item_phon item_cat item_sem? item_gloss?, and the transformer's
\* line, which builds every entry with enabled = True
line(t, i) ==
    Then(item_phon(t, i), LAMBDA p :
    Then(item_cat(t, p.pos), LAMBDA c :
    Then(optional_sem(t, c.pos), LAMBDA s :
    Then(optional_gloss(t, s.pos), LAMBDA g :
         Success(g.pos, Lex_Entry(p.val, c.val, s.val, g.val, TRUE, <<>>))))))

RECURSIVE entries(_, _, _)
\* entries: line*
entries(t, i, acc) ==
    IF AtAny(t, i, WORD_CHARS)
    THEN Then(line(t, i), LAMBDA r : entries(t, r.pos, Append(acc, r.val)))
    ELSE Success(i, acc)

\* item_preamble: "@" PREAMBLE (_EOL+ | adj_comment) adj_comment*
item_preamble(t, i) ==
    LET j == ScanUntil(t, i + 1, PREAMBLE_STOP)
    IN IF j = i + 1 \/ j > Len(t) THEN Failure
       ELSE Then(item_tail(t, j), LAMBDA tl :
            Success(tl.pos, Preamble(SubSeq(t, i + 1, j - 1), tl.val)))

RECURSIVE preambles(_, _, _)
\* preambles: item_preamble*
preambles(t, i, acc) ==
    IF At(t, i, "@")
    THEN Then(item_preamble(t, i), LAMBDA r : preambles(t, r.pos, Append(acc, r.val)))
    ELSE Success(i, acc)

\* a start that gives what it has read when the text does not go on as an entry
start_partial(t) ==
    Then(adj_comments(t, skip_eols(t, 1), <<>>), LAMBDA cs :
    Then(preambles(t, cs.pos, <<>>), LAMBDA ps :
    Then(entries(t, skip_eols(t, ps.pos), <<>>), LAMBDA es :
         [ok |-> TRUE, comments |-> cs.val, preambles |-> ps.val,
          contents |-> es.val])))

\* start: _EOL* comments_init preambles _EOL* entries _EOL*
start(t) ==
    Then(adj_comments(t, skip_eols(t, 1), <<>>), LAMBDA cs :
    Then(preambles(t, cs.pos, <<>>), LAMBDA ps :
    Then(entries(t, skip_eols(t, ps.pos), <<>>), LAMBDA es :
         IF skip_eols(t, es.pos) <= Len(t) THEN Failure
         ELSE [ok |-> TRUE, comments |-> cs.val, preambles |-> ps.val,
               contents |-> es.val])))

\* parse(name, text): a Dictionary, or the error Lark raises
parse(name, t) ==
    Then(start(t), LAMBDA res :
         [ok |-> TRUE, dic |-> Dictionary(name, res.comments, res.preambles, res.contents)])

(***************************************************************************)
(* The values the model draws its documents from.                          *)
(***************************************************************************)
PhonValues == {<<>>, <<"a">>}
SemValues == {<<>>, <<"s">>}
GlossValues == {<<>>, <<"g">>}
PreambleValues == {<<"p">>}
CommentValues == {<<>>, <<"c">>}
Keys == {<<"k">>}
AttrValValues ==
    {StrValue(<<>>), StrValue(<<"v">>), ListValue(<< <<"v">>, <<"w">> >>)}
DictName == <<"n">>

\* the lists of at most n comments
CommentLists(n) ==
    { [i \in 1..Len(vs) |-> Comment(vs[i])] :
        vs \in SeqUpTo(CommentValues, IF n < 0 THEN 0 ELSE n) }

RECURSIVE AttrValLists(_, _)
\* the lists of at most n brackets that carry at most b comments in all
AttrValLists(n, b) ==
    {<<>>} \cup
    (IF n = 0 THEN {}
     ELSE UNION { { <<Cat_AttrVal(k, v, cs)>> \o rest :
                       rest \in AttrValLists(n - 1, b - Len(cs)) } :
                  k \in Keys, v \in AttrValValues, cs \in CommentLists(b) })

RECURSIVE NumAttrValComments(_)
NumAttrValComments(avs) ==
    IF avs = <<>> THEN 0
    ELSE Len(Head(avs).comments) + NumAttrValComments(Tail(avs))

\* the number of comments anchored in an entry
NumEntryComments(e) ==
    Len(e.phon.comments) + NumAttrValComments(e.cat.attrvals) + Len(e.cat.comments)
    + Len(e.sem.comments) + Len(e.gloss.comments) + Len(e.comments)

(***************************************************************************)
(* Spec: a Lex_Entry built by a program is serialized, alone or inside a   *)
(* Dictionary, to a sink; the text is parsed again and the result          *)
(* serialized once more.                                                   *)
(***************************************************************************)
Init ==
    /\ pc = "start"
    /\ \E pv \in PhonValues, sv \in SemValues, gv \in GlossValues, en \in BOOLEAN :
       \E c1 \in CommentLists(MaxComments) :
       \E avs \in AttrValLists(MaxAttrVals, MaxComments - Len(c1)) :
       \E c2 \in CommentLists(MaxComments - Len(c1) - NumAttrValComments(avs)) :
       \E c3 \in CommentLists(MaxComments - Len(c1) - NumAttrValComments(avs) - Len(c2)) :
       \E c4 \in CommentLists(MaxComments - Len(c1) - NumAttrValComments(avs) - Len(c2)
                                - Len(c3)) :
       \E c5 \in CommentLists(MaxComments - Len(c1) - NumAttrValComments(avs) - Len(c2)
                                - Len(c3) - Len(c4)) :
          entry = Lex_Entry(Phon(pv, c1), Cat(avs, c2), Sem(sv, c3), Gloss(gv, c4), en, c5)
    /\ dic = None
    /\ with_comments \in BOOLEAN
    /\ seekable \in BOOLEAN
    /\ buffer = <<>>
    /\ text = <<>>
    /\ parsed = None
    /\ out = <<>>
    /\ source = None
    /\ lookup = None
    /\ left = None
    /\ right = None
    /\ df = None
    /\ result = None

\* entry.dump_mordict(buffer, with_comments) on an empty sink
DumpEntry ==
    /\ pc = "start"
    /\ buffer' = Lex_Entry_dump_mordict(buffer, entry, with_comments, seekable)
    /\ pc' = "dumped"
    /\ UNCHANGED <<entry, dic, with_comments, seekable, text, parsed, out, source, lookup>>
    /\ UNCHANGED value_vars

\* Dictionary(...).dump_mordict(buffer, with_comments): the entry inside a
\* dictionary with leading comments and preambles
DumpDictionary ==
    /\ pc = "start"
    /\ \E dcs \in CommentLists(MaxComments - NumEntryComments(entry)) :
       \E pre \in {<<>>} \cup
                  { <<Preamble(v, cs)>> :
                      v \in PreambleValues,
                      cs \in CommentLists(MaxComments - NumEntryComments(entry) - Len(dcs)) } :
          /\ dic' = Dictionary(DictName, dcs, pre, <<entry>>)
          /\ buffer' = Dictionary_dump_mordict(buffer, dic', with_comments, seekable)
    /\ pc' = "dict_dumped"
    /\ UNCHANGED <<entry, with_comments, seekable, text, parsed, out, source, lookup>>
    /\ UNCHANGED value_vars

\* parse(name, text) on the text the entry was serialized to
ParseDumped ==
    /\ pc = "dumped"
    /\ text' = buffer
    /\ parsed' = parse(DictName, buffer)
    /\ pc' = "parsed"
    /\ UNCHANGED <<entry, dic, with_comments, seekable, buffer, out, source, lookup>>
    /\ UNCHANGED value_vars

\* the parsed Dictionary is serialized to a second, empty sink
Redump ==
    /\ pc = "parsed"
    /\ parsed.ok
    /\ out' = Dictionary_dump_mordict(<<>>, parsed.dic, with_comments, seekable)
    /\ pc' = "redumped"
    /\ UNCHANGED <<entry, dic, with_comments, seekable, buffer, text, parsed, source,
                   lookup>>
    /\ UNCHANGED value_vars

Next ==
    \/ DumpEntry
    \/ DumpDictionary
    \/ ParseDumped
    \/ Redump

Spec == Init /\ [][Next]_vars

(***************************************************************************)
(* Helpers of the properties.                                              *)
(***************************************************************************)
IsPrefix(p, s) == Len(p) <= Len(s) /\ SubSeq(s, 1, Len(p)) = p

Drop(s, n) == SubSeq(s, n + 1, Len(s))

\* the serialization of a list of comments, each by Comment.dump_mordict
CommentsText(cs) == dump_comments(<<>>, cs)

\* what follows an item when comments are included: a blank and its comments
ExpectedAnchored(item, with_c) ==
    IF with_c /\ item.comments # <<>> THEN <<SP>> \o CommentsText(item.comments) ELSE <<>>

\* '[' key ' ' value ']' for each bracket, the tokens of a list value
\* separated by one blank
ExpectedBrackets(avs) ==
    Flatten([i \in 1..Len(avs) |->
        <<"[">> \o avs[i].key \o <<SP>>
        \o (IF avs[i].value.islist THEN JoinSpace(avs[i].value.toks)
            ELSE avs[i].value.toks[1])
        \o <<"]">>])

\* the layout of an enabled entry as C1 states it
ExpectedEnabled(e, with_c) ==
    e.phon.value \o ExpectedAnchored(e.phon, with_c)
    \o <<TAB>>
    \o <<"{">> \o ExpectedBrackets(e.cat.attrvals) \o <<"}">>
    \o ExpectedAnchored(e.cat, with_c)
    \o (IF e.sem.value # <<>> THEN <<SP, "=">> \o e.sem.value \o <<"=">> ELSE <<>>)
    \o ExpectedAnchored(e.sem, with_c)
    \o (IF e.gloss.value # <<>> THEN <<SP, "\"">> \o e.gloss.value \o <<"\"">> ELSE <<>>)
    \o ExpectedAnchored(e.gloss, with_c)

\* what closes an entry: its own comments and the closing newline(s)
EntryTail(e, with_c) ==
    { (IF with_c THEN CommentsText(e.comments) ELSE <<>>) \o nl :
        nl \in {<<>>, <<NL>>, <<NL, NL>>} }

\* C1: an enabled Lex_Entry is written as Phon, one tab, '{' brackets '}',
\* then ' =Sem=' only if Sem is non-empty, then ' "Gloss"' only if Gloss is
\* non-empty, each item followed by its own anchored comments when comments
\* are included; only the entry's own comments and the closing newline follow.
C1_EnabledLayout ==
    (pc = "dumped" /\ entry.enabled) =>
        /\ IsPrefix(ExpectedEnabled(entry, with_comments), buffer)
        /\ Drop(buffer, Len(ExpectedEnabled(entry, with_comments)))
              \in EntryTail(entry, with_comments)

C1_Witness ==
    /\ pc = "dumped" /\ entry.enabled /\ with_comments
    /\ entry.sem.value # <<>> /\ entry.gloss.value = <<>>
    /\ entry.cat.attrvals # <<>>
    /\ entry.sem.comments # <<>> /\ entry.sem.comments[1].value # <<>>

\* the number of comments of a list whose value is not empty
NumNonEmpty(cs) == Cardinality({ i \in DOMAIN cs : cs[i].value # <<>> })

RECURSIVE SumOver(_, _)
\* the sum of f[i] for i in 1..n
SumOver(f, n) == IF n = 0 THEN 0 ELSE f[n] + SumOver(f, n - 1)

\* the blanks of the brackets: one after each key and one between two tokens
BracketBlanks(avs) ==
    SumOver([i \in 1..Len(avs) |->
                1 + (IF avs[i].value.islist /\ Len(avs[i].value.toks) > 1
                     THEN Len(avs[i].value.toks) - 1 ELSE 0)],
            Len(avs))

\* the blanks that the comments of an item bring: the one before the list,
\* the one of each '% ' and, in a disabled entry, each flattened newline
ItemCommentBlanks(item, en) ==
    (IF item.comments # <<>> THEN 1 ELSE 0)
    + NumNonEmpty(item.comments) * (IF en THEN 1 ELSE 2)

\* every blank of a serialized entry that is not the separator of Sem or Gloss
OtherBlanks(e, with_c) ==
    BracketBlanks(e.cat.attrvals)
    + (IF e.enabled THEN 0 ELSE 2)
    + (IF with_c
       THEN ItemCommentBlanks(e.phon, e.enabled) + ItemCommentBlanks(e.cat, e.enabled)
            + ItemCommentBlanks(e.sem, e.enabled) + ItemCommentBlanks(e.gloss, e.enabled)
            + NumNonEmpty(e.comments)
       ELSE 0)

RECURSIVE IndexOf(_, _)
\* the index of the first c in s, Len(s) + 1 when there is none
IndexOf(c, s) ==
    IF s = <<>> THEN 1
    ELSE IF Head(s) = c THEN 1
    ELSE 1 + IndexOf(c, Tail(s))

\* where the substantive fields of the entry start in its serialization:
\* at the beginning, or after the marker of a disabled entry
FieldsStart(e, s) ==
    IF e.enabled THEN s ELSE Drop(s, IndexOf("%", s) - 1 + Len(DISABLED_MARKER))

\* C2: omission law.  Enabled or disabled, an empty Sem writes no '=', an
\* empty Gloss writes no '"', and neither brings a separating blank; the
\* Phon text and the braces of the Cat are always written, also for an
\* empty Phon and a Cat without brackets.
C2_OmissionLaw ==
    (pc = "dumped") =>
        /\ Count("=", buffer) = (IF entry.sem.value = <<>> THEN 0 ELSE 2)
        /\ Count("\"", buffer) = (IF entry.gloss.value = <<>> THEN 0 ELSE 2)
        /\ Count(SP, buffer) = OtherBlanks(entry, with_comments)
                                + (IF entry.sem.value = <<>> THEN 0 ELSE 1)
                                + (IF entry.gloss.value = <<>> THEN 0 ELSE 1)
        /\ Count("{", buffer) = 1
        /\ Count("}", buffer) = 1
        /\ IndexOf("{", buffer) < IndexOf("}", buffer)
        /\ IsPrefix(entry.phon.value, FieldsStart(entry, buffer))
        /\ IndexOf("{", FieldsStart(entry, buffer)) <= Len(FieldsStart(entry, buffer))

C2_Witness ==
    /\ pc = "dumped" /\ ~entry.enabled
    /\ entry.sem.value = <<>> /\ entry.gloss.value # <<>>
    /\ entry.phon.value = <<>> /\ entry.cat.attrvals = <<>>

\* C3: a disabled entry is written as '% DISABLED: ' followed by its enabled
\* rendering with every newline replaced by a blank, nothing before the marker.
C3_DisabledFlattened ==
    (pc = "dumped" /\ ~entry.enabled) =>
        IsPrefix(DISABLED_MARKER
                   \o replace_newlines(dump_enabled(<<>>, entry, with_comments)),
                 buffer)

RECURSIVE Lines(_)
\* the lines of a text, without their newline
Lines(s) ==
    IF s = <<>> THEN <<>>
    ELSE LET i == IndexOf(NL, s)
         IN <<SubSeq(s, 1, i - 1)>> \o Lines(Drop(s, i))

\* C4: a disabled entry with k comments of its own (of non-empty text) is
\* written with comments, here to a seekable sink, as one marker line
\* followed by k lines '% comment'.
C4_DisabledCommentLines ==
    (pc = "dumped" /\ ~entry.enabled /\ with_comments /\ seekable
       /\ NumNonEmpty(entry.comments) = Len(entry.comments)) =>
        LET ls == Lines(buffer)
            k == Len(entry.comments)
        IN /\ Len(ls) = k + 1
           /\ \A i \in 1..k : ls[i + 1] = <<"%", SP>> \o entry.comments[i].value

RECURSIVE ExtractComments(_)
\* the texts of the comments of a serialization: what stands between each
\* '% ' and the end of its line
ExtractComments(s) ==
    LET i == IndexOf("%", s)
    IN IF i > Len(s) THEN <<>>
       ELSE LET rest == Drop(s, i)
                body == IF rest # <<>> /\ Head(rest) = SP THEN Tail(rest) ELSE rest
                j == IndexOf(NL, body)
            IN <<SubSeq(body, 1, j - 1)>> \o ExtractComments(Drop(body, j - 1))

CommentValuesOf(cs) == [i \in 1..Len(cs) |-> cs[i].value]

\* the comments of an entry in the order of its items
EntryCommentValues(e) ==
    CommentValuesOf(e.phon.comments)
    \o Flatten([i \in 1..Len(e.cat.attrvals) |->
                  CommentValuesOf(e.cat.attrvals[i].comments)])
    \o CommentValuesOf(e.cat.comments)
    \o CommentValuesOf(e.sem.comments)
    \o CommentValuesOf(e.gloss.comments)
    \o CommentValuesOf(e.comments)

\* the comments of a dictionary in the order of its items
DictionaryCommentValues(d) ==
    CommentValuesOf(d.comments)
    \o Flatten([i \in 1..Len(d.preambles) |-> CommentValuesOf(d.preambles[i].comments)])
    \o Flatten([i \in 1..Len(d.contents) |-> EntryCommentValues(d.contents[i])])

\* C7: serializing a Dictionary with comments writes every comment anchored
\* to any of its nodes, in order (here for enabled entries).
C7_AllCommentsWritten ==
    (pc = "dict_dumped" /\ with_comments /\ entry.enabled) =>
        ExtractComments(buffer) = DictionaryCommentValues(dic)

EndsWithOneNewline(s) ==
    /\ s # <<>>
    /\ Last(s) = NL
    /\ Len(s) >= 2 => s[Len(s) - 1] \notin {NL, CR}

C5_DisabledRoundTrip ==
    (pc \in {"parsed", "redumped"} /\ ~entry.enabled) =>
        /\ parsed.ok
        /\ Len(parsed.dic.contents) = 1
        /\ ~parsed.dic.contents[1].enabled
        /\ pc = "redumped" => out = buffer

(***************************************************************************)
(* SpecParse: a source text is laid out from a description of its items    *)
(* (the layout), and parse reads it.                                       *)
(***************************************************************************)
SrcCommentValues == {<<>>, <<"c">>}

\* the lists of at most n value tokens: 'v', 'v w', 'v w v', ...
SrcTokenLists(n) ==
    { [i \in 1..k |-> IF i % 2 = 1 THEN <<"v">> ELSE <<"w">>] : k \in 0..n }
SrcSemValues == {<<>>, <<"s">>}
SrcGlossValues == {<<>>, <<"g">>}

\* the lists of at most n comments of a source text
SrcCommentLists(n) ==
    { [i \in 1..Len(vs) |-> Comment(vs[i])] :
        vs \in SeqUpTo(SrcCommentValues, IF n < 0 THEN 0 ELSE n) }

RECURSIVE SrcBracketLists(_, _)
\* the lists of at most n brackets followed by at most b comments in all
SrcBracketLists(n, b) ==
    {<<>>} \cup
    (IF n = 0 THEN {}
     ELSE UNION { { <<[key |-> k, tokens |-> ts, comments |-> cs]>> \o rest :
                       rest \in SrcBracketLists(n - 1, b - Len(cs)) } :
                  k \in Keys, ts \in SrcTokenLists(MaxSrcTokens),
                  cs \in SrcCommentLists(b) })

\* an optional item '=..=' or '".."': absent, or present with its value (that
\* may be empty) and the comments that follow it
SrcOptionalItems(values, b) ==
    {[present |-> FALSE, value |-> <<>>, comments |-> <<>>]} \cup
    { [present |-> TRUE, value |-> v, comments |-> cs] :
        v \in values, cs \in SrcCommentLists(b) }

SrcPreambleLists(b) ==
    {<<>>} \cup
    { <<[value |-> v, comments |-> cs]>> : v \in PreambleValues, cs \in SrcCommentLists(b) }

RECURSIVE NumBracketComments(_)
NumBracketComments(bs) ==
    IF bs = <<>> THEN 0 ELSE Len(Head(bs).comments) + NumBracketComments(Tail(bs))

NumPreambleComments(ps) == IF ps = <<>> THEN 0 ELSE Len(ps[1].comments)

\* a comment line of the source: '%' alone for an empty comment
SrcComment(c) ==
    <<"%">> \o (IF c.value = <<>> THEN <<>> ELSE <<SP>> \o c.value) \o <<NL>>

SrcComments(cs) == Flatten([i \in 1..Len(cs) |-> SrcComment(cs[i])])

\* an item of the source and the comment lines that follow it immediately
SrcItem(item_text, cs) ==
    item_text \o (IF cs = <<>> THEN <<>> ELSE <<SP>> \o SrcComments(cs))

SrcBracket(b) ==
    SrcItem(<<"[">> \o b.key
            \o Flatten([i \in 1..Len(b.tokens) |-> <<SP>> \o b.tokens[i]])
            \o <<"]">>,
            b.comments)

SrcOptional(item, open, close) ==
    IF item.present
    THEN <<SP>> \o SrcItem(open \o item.value \o close, item.comments)
    ELSE <<>>

\* the text of a source laid out as src describes
SourceText(src) ==
    SrcComments(src.comments)
    \o Flatten([i \in 1..Len(src.preambles) |->
                  <<"@">> \o src.preambles[i].value \o <<NL>>
                  \o SrcComments(src.preambles[i].comments)])
    \o SrcItem(src.phon.value, src.phon.comments)
    \o <<TAB, "{">>
    \o Flatten([i \in 1..Len(src.brackets) |-> SrcBracket(src.brackets[i])])
    \o SrcItem(<<"}">>, src.cat_comments)
    \o SrcOptional(src.sem, <<"=">>, <<"=">>)
    \o SrcOptional(src.gloss, <<"\"">>, <<"\"">>)
    \o <<NL>>

InitParse ==
    /\ pc = "source"
    /\ \E dcs \in SrcCommentLists(MaxComments) :
       \E pre \in SrcPreambleLists(MaxComments - Len(dcs)) :
       \E c1 \in SrcCommentLists(MaxComments - Len(dcs) - NumPreambleComments(pre)) :
       \E bs \in SrcBracketLists(MaxSrcAttrVals,
                    MaxComments - Len(dcs) - NumPreambleComments(pre) - Len(c1)) :
       \E c2 \in SrcCommentLists(MaxComments - Len(dcs) - NumPreambleComments(pre) - Len(c1)
                                   - NumBracketComments(bs)) :
       \E sm \in SrcOptionalItems(SrcSemValues,
                    MaxComments - Len(dcs) - NumPreambleComments(pre) - Len(c1)
                    - NumBracketComments(bs) - Len(c2)) :
       \E gl \in SrcOptionalItems(SrcGlossValues,
                    MaxComments - Len(dcs) - NumPreambleComments(pre) - Len(c1)
                    - NumBracketComments(bs) - Len(c2) - Len(sm.comments)) :
          source = [comments |-> dcs, preambles |-> pre,
                    phon |-> [value |-> <<"a">>, comments |-> c1],
                    brackets |-> bs, cat_comments |-> c2, sem |-> sm, gloss |-> gl]
    /\ text = SourceText(source)
    /\ entry = None
    /\ dic = None
    /\ with_comments = TRUE
    /\ seekable = TRUE
    /\ buffer = <<>>
    /\ parsed = None
    /\ out = <<>>
    /\ lookup = None
    /\ left = None
    /\ right = None
    /\ df = None
    /\ result = None

\* parse(name, text) on the source text
ParseSource ==
    /\ pc = "source"
    /\ parsed' = parse(DictName, text)
    /\ pc' = "src_parsed"
    /\ UNCHANGED <<entry, dic, with_comments, seekable, buffer, text, out, source, lookup>>
    /\ UNCHANGED value_vars

NextParse == ParseSource

SpecParse == InitParse /\ [][NextParse]_vars

\* C6: every item of the source (Phon, bracket, Cat, Sem, Gloss, Preamble)
\* followed by N comment lines gives a node with exactly those N comments in
\* source order, and no comment goes to another node.
C6_CommentAnchoring ==
    (pc = "src_parsed") =>
        /\ parsed.ok
        /\ Len(parsed.dic.contents) = 1
        /\ LET d == parsed.dic
               e == d.contents[1]
           IN /\ d.comments = source.comments
              /\ Len(d.preambles) = Len(source.preambles)
              /\ \A i \in 1..Len(d.preambles) :
                    d.preambles[i].comments = source.preambles[i].comments
              /\ e.phon.comments = source.phon.comments
              /\ Len(e.cat.attrvals) = Len(source.brackets)
              /\ \A i \in 1..Len(e.cat.attrvals) :
                    e.cat.attrvals[i].comments = source.brackets[i].comments
              /\ e.cat.comments = source.cat_comments
              /\ e.sem.comments = source.sem.comments
              /\ e.gloss.comments = source.gloss.comments
              /\ e.comments = <<>>

\* the shape of a bracket's value by the number of its tokens
ExpectedShape(tokens) ==
    CASE Len(tokens) = 0 -> [islist |-> FALSE, toks |-> << <<>> >>]
      [] Len(tokens) = 1 -> [islist |-> FALSE, toks |-> <<tokens[1]>>]
      [] OTHER -> [islist |-> TRUE, toks |-> tokens]

\* C10: a bracket '[key ...]' with no value token gives the empty string,
\* with one token that token as a string, with more a list of the tokens in
\* source order.
C10_ArityRule ==
    (pc = "src_parsed" /\ parsed.ok) =>
        LET avs == parsed.dic.contents[1].cat.attrvals
        IN /\ Len(avs) = Len(source.brackets)
           /\ \A i \in 1..Len(avs) :
                 /\ avs[i].key = source.brackets[i].key
                 /\ avs[i].value = ExpectedShape(source.brackets[i].tokens)

C10_Witness ==
    /\ pc = "src_parsed" /\ parsed.ok
    /\ Len(source.brackets) = 1
    /\ Len(source.brackets[1].tokens) = 2
    /\ source.brackets[1].tokens[1] # source.brackets[1].tokens[2]
    /\ source.brackets[1].comments # <<>>

(***************************************************************************)
(* SpecCat: a Cat is looked up by key, Cat[key].                           *)
(***************************************************************************)
CatKeys == {<<"k">>, <<"j">>}
\* the keys looked up: those of the brackets and one that no bracket has
LookupKeys == CatKeys \cup {<<"z">>}
CatScalars == {StrValue(<<"v">>), StrValue(<<"w">>)}

InitCat ==
    /\ pc = "cat"
    /\ \E ks \in SeqUpTo(CatKeys, MaxLookupAttrVals) :
       \E vs \in [1..Len(ks) -> CatScalars] :
          entry = Lex_Entry(Phon(<<"a">>, <<>>),
                            Cat([i \in 1..Len(ks) |-> Cat_AttrVal(ks[i], vs[i], <<>>)], <<>>),
                            Sem(<<>>, <<>>), Gloss(<<>>, <<>>), TRUE, <<>>)
    /\ dic = None
    /\ with_comments = TRUE
    /\ seekable = TRUE
    /\ buffer = <<>>
    /\ text = <<>>
    /\ parsed = None
    /\ out = <<>>
    /\ source = None
    /\ lookup = None
    /\ left = None
    /\ right = None
    /\ df = None
    /\ result = None

\* list(entry.cat[key])
GetItem ==
    /\ pc = "cat"
    /\ \E key \in LookupKeys :
          lookup' = [key |-> key, items |-> Cat_getitem(entry.cat, key)]
    /\ pc' = "looked_up"
    /\ UNCHANGED <<entry, dic, with_comments, seekable, buffer, text, parsed, out, source>>
    /\ UNCHANGED value_vars

NextCat == GetItem

SpecCat == InitCat /\ [][NextCat]_vars

\* the indices of the brackets of a Cat that have the key
IndicesOf(c, key) == { i \in DOMAIN c.attrvals : c.attrvals[i].key = key }

\* C9: Cat[key] yields exactly the brackets whose key is the given one, all of
\* them when the key is duplicated, in their order in attrvals, and nothing
\* for a key that no bracket has.
C9_LookupByKey ==
    (pc = "looked_up") =>
        LET idx == IndicesOf(entry.cat, lookup.key)
        IN /\ Len(lookup.items) = Cardinality(idx)
           /\ \A i \in idx :
                 lookup.items[Cardinality({ j \in idx : j <= i })] = entry.cat.attrvals[i]
           /\ (idx = {}) => lookup.items = <<>>

C9_Witness ==
    /\ pc = "looked_up"
    /\ Len(entry.cat.attrvals) = 3
    /\ entry.cat.attrvals[2].key # lookup.key
    /\ Len(lookup.items) = 2
    /\ lookup.items[1] # lookup.items[2]

(***************************************************************************)
(* SpecEq: value equality and hashing of the nodes, as attrs generates     *)
(* them from the cmp flags of the attributes.                              *)
(***************************************************************************)
\* lark.tree.Meta: a position in the source; `empty` tells that no position
\* was recorded
Meta(ln, col) == [empty |-> FALSE, line |-> ln, column |-> col]
EmptyMeta == [empty |-> TRUE]

\* a node with its attribute meta set (it defaults to None)
with_meta(node, m) ==
    [f \in DOMAIN node \cup {"meta"} |-> IF f = "meta" THEN m ELSE node[f]]

\* the attribute meta of a node
meta_of(node) == IF "meta" \in DOMAIN node THEN node.meta ELSE None

\* an equality that compares the enabled flag of an entry as well
cmp_fields_with_enabled(kind) ==
    CASE kind = "Lex_Entry" -> {"phon", "cat", "sem", "gloss", "enabled"}
      [] kind = "Cat" -> {"attrvals"}
      [] kind = "Cat_AttrVal" -> {"key", "value"}
      [] OTHER -> {"value"}

\* the attributes declared with cmp = True, class by class
cmp_fields(kind) ==
    CASE kind = "Lex_Entry" -> {"phon", "cat", "sem", "gloss"}
      [] kind = "Cat" -> {"attrvals"}
      [] kind = "Cat_AttrVal" -> {"key", "value"}
      [] OTHER -> {"value"}

RECURSIVE attrs_eq(_, _)
RECURSIVE field_eq(_, _, _)
\* == on the values of one attribute: nodes by their own __eq__, a tuple of
\* nodes member by member, a str or a list of str by value
field_eq(f, x, y) ==
    IF f \in {"phon", "cat", "sem", "gloss"} THEN attrs_eq(x, y)
    ELSE IF f = "attrvals"
    THEN Len(x) = Len(y) /\ \A i \in 1..Len(x) : attrs_eq(x[i], y[i])
    ELSE x = y

\* the __eq__ attrs generates: the same class, and equal tuples of the
\* attributes declared with cmp = True
attrs_eq(a, b) ==
    /\ a.kind = b.kind
    /\ \A f \in cmp_fields(a.kind) : field_eq(f, a[f], b[f])

\* ord(c) for the characters of the model
ord(c) ==
    CASE c = "a" -> 97 [] c = "c" -> 99 [] c = "g" -> 103 [] c = "j" -> 106
      [] c = "k" -> 107 [] c = "s" -> 115 [] c = "v" -> 118 [] c = "w" -> 119
      [] OTHER -> 63

RECURSIVE hash_ints(_, _)
\* a hash of a tuple of integers (CPython's depends on the process; any
\* function of the members serves)
hash_ints(h, xs) ==
    IF xs = <<>> THEN h ELSE hash_ints((h * 31 + Head(xs)) % 65521, Tail(xs))

\* hash(str)
hash_str(s) == [ok |-> TRUE, val |-> hash_ints(7, [i \in 1..Len(s) |-> ord(s[i])])]

\* hash of the value of a Cat_AttrVal: hash(list) raises TypeError
hash_value(v) == IF v.islist THEN [ok |-> FALSE] ELSE hash_str(v.toks[1])

\* hash(tuple): the hashes of the members combined, or the TypeError of a
\* member
hash_tuple(hs) ==
    IF \A i \in 1..Len(hs) : hs[i].ok
    THEN [ok |-> TRUE, val |-> hash_ints(Len(hs), [i \in 1..Len(hs) |-> hs[i].val])]
    ELSE [ok |-> FALSE]

RECURSIVE attrs_hash(_)
\* the __hash__ attrs generates for a frozen class: the hash of the tuple of
\* the attributes declared with cmp = True
attrs_hash(a) ==
    CASE a.kind = "Lex_Entry" ->
           hash_tuple(<<attrs_hash(a.phon), attrs_hash(a.cat), attrs_hash(a.sem),
                        attrs_hash(a.gloss)>>)
      [] a.kind = "Cat" ->
           hash_tuple(<<hash_tuple([i \in 1..Len(a.attrvals) |->
                                       attrs_hash(a.attrvals[i])])>>)
      [] a.kind = "Cat_AttrVal" -> hash_tuple(<<hash_str(a.key), hash_value(a.value)>>)
      [] OTHER -> hash_tuple(<<hash_str(a.value)>>)

\* the nodes the comparisons are made on
EqMetas == {None, Meta(1, 1)}
EqComments == {<<>>, <<Comment(<<"c">>)>>}
EqValues == {<<>>, <<"a">>}
EqLeaves(kind) ==
    { with_meta([kind |-> kind, value |-> v, comments |-> cs], m) :
        v \in EqValues, cs \in EqComments, m \in EqMetas }
EqAttrVals ==
    { with_meta(Cat_AttrVal(k, v, cs), m) :
        k \in Keys, v \in AttrValValues, cs \in EqComments, m \in EqMetas }
EqCats ==
    { with_meta(Cat(avs, cs), m) :
        avs \in {<<>>} \cup { <<av>> : av \in EqAttrVals },
        cs \in EqComments, m \in EqMetas }
\* a node with or without provenance
EqProvenance(node) == {node, with_meta([node EXCEPT !.comments = <<Comment(<<"c">>)>>],
                                       Meta(1, 1))}
EqEntryCats ==
    UNION { EqProvenance(Cat(avs, <<>>)) :
              avs \in {<<>>, <<Cat_AttrVal(<<"k">>, StrValue(<<"v">>), <<>>)>>} }
EqEntries ==
    { with_meta(Lex_Entry(p, c, s, g, en, pv.comments), pv.meta) :
        p \in UNION { EqProvenance(Phon(v, <<>>)) : v \in {<<"a">>} }
                \cup {Phon(<<>>, <<>>)},
        c \in EqEntryCats,
        s \in { Sem(v, <<>>) : v \in EqValues },
        g \in { Gloss(v, <<>>) : v \in EqValues },
        en \in BOOLEAN,
        pv \in { [comments |-> <<>>, meta |-> None],
                 [comments |-> <<Comment(<<"c">>)>>, meta |-> Meta(1, 1)] } }
EqListEntries ==
    { Lex_Entry(Phon(<<"a">>, <<>>),
                Cat(<<Cat_AttrVal(<<"k">>, ListValue(<< <<"v">>, <<"w">> >>), <<>>)>>, <<>>),
                Sem(<<>>, <<>>), Gloss(<<>>, <<>>), en, <<>>) : en \in BOOLEAN }
EqNodes ==
    UNION { EqLeaves(kind) : kind \in {"Comment", "Phon", "Sem", "Gloss", "Preamble"} }
    \cup EqAttrVals \cup EqCats \cup EqEntries \cup EqListEntries

InitEq ==
    /\ pc = "eq_start"
    /\ left \in EqNodes
    /\ right \in { n \in EqNodes : n.kind = left.kind }
    /\ df = None
    /\ result = None
    /\ entry = None
    /\ dic = None
    /\ with_comments = FALSE
    /\ seekable = FALSE
    /\ buffer = <<>>
    /\ text = <<>>
    /\ parsed = None
    /\ out = <<>>
    /\ source = None
    /\ lookup = None

\* left == right
Compare ==
    /\ pc = "eq_start"
    /\ result' = [eq |-> attrs_eq(left, right)]
    /\ pc' = "compared"
    /\ UNCHANGED <<left, right, df>>
    /\ UNCHANGED text_vars

\* hash(left), hash(right)
Hash ==
    /\ pc = "eq_start"
    /\ result' = [left |-> attrs_hash(left), right |-> attrs_hash(right)]
    /\ pc' = "hashed"
    /\ UNCHANGED <<left, right, df>>
    /\ UNCHANGED text_vars

NextEq ==
    \/ Compare
    \/ Hash

SpecEq == InitEq /\ [][NextEq]_vars

RECURSIVE Content(_)
\* the content of a node: what is left of it without the positions, the
\* anchored comments and the enabled flag
Content(a) ==
    CASE a.kind = "Lex_Entry" ->
           <<Content(a.phon), Content(a.cat), Content(a.sem), Content(a.gloss)>>
      [] a.kind = "Cat" -> <<[i \in 1..Len(a.attrvals) |-> Content(a.attrvals[i])]>>
      [] a.kind = "Cat_AttrVal" -> <<a.key, a.value>>
      [] OTHER -> <<a.value>>

\* C11: two nodes of the same kind are equal iff their content is equal,
\* whatever their positions, their anchored comments and (for a Lex_Entry)
\* their enabled flags
C11_EqualityIgnoresProvenance ==
    pc = "compared" => (result.eq <=> Content(left) = Content(right))

\* two entries of equal content that differ in position, comments and flag,
\* and compare equal
C11_Witness ==
    /\ pc = "compared"
    /\ left.kind = "Lex_Entry"
    /\ result.eq
    /\ left.enabled # right.enabled
    /\ meta_of(left) # meta_of(right)
    /\ left.comments # right.comments
    /\ meta_of(left.phon) # meta_of(right.phon)

\* C12: hashing a node always succeeds, and equal nodes have equal hashes
C12_HashableByContent ==
    pc = "hashed" =>
        /\ result.left.ok
        /\ result.right.ok
        /\ attrs_eq(left, right) => result.left.val = result.right.val

(***************************************************************************)
(* SpecTable: a Dictionary is turned into a pandas DataFrame, the entries  *)
(* are rebuilt from the rows, and a Dictionary is updated with a table.    *)
(* A DataFrame is a record of its column names, its row keys (the          *)
(* MultiIndex) and its rows, each row a tuple in the order of the columns. *)
(***************************************************************************)
pandas_index_names == <<"dict_name", "line", "column">>
pandas_col_names ==
    <<"Phon", "Category", "Overall Semantics", "Morphological Analysis", "enabled">>

\* a draw that may give zero
gen_rand_nonpos == { -k : k \in 0..MaxRand }

\* _gen_rand_neg(): what - random.randint(1, sys.maxsize) may return
gen_rand_neg == { -k : k \in 1..MaxRand }

\* a row with the Sem and the Gloss in each other's place
to_tuple_swapped(self) == <<self.phon, self.cat, self.gloss, self.sem, self.enabled>>

\* Lex_Entry.to_tuple
to_tuple(self) == <<self.phon, self.cat, self.sem, self.gloss, self.enabled>>

\* Lex_Entry.get_dataframe_index; r holds the two integers the calls of
\* _gen_rand_neg return when the entry has no position
get_dataframe_index(self, name, r) ==
    IF meta_of(self) # None /\ ~meta_of(self).empty
    THEN <<name, meta_of(self).line, meta_of(self).column>>
    ELSE <<name, r[1], r[2]>>

\* pd.DataFrame(data, columns = ..., index = pd.MultiIndex.from_tuples(...))
DataFrame(data, columns, index, names) ==
    [columns |-> columns, index_names |-> names, index |-> index, data |-> data]

\* Dictionary.to_dataframe; rnd holds the draws, entry by entry
to_dataframe(self, rnd) ==
    DataFrame([i \in 1..Len(self.contents) |-> to_tuple(self.contents[i])],
              pandas_col_names,
              [i \in 1..Len(self.contents) |->
                  get_dataframe_index(self.contents[i], self.name, rnd[i])],
              pandas_index_names)

\* the place of a column in a table
column_position(columns, name) == CHOOSE i \in 1..Len(columns) : columns[i] = name

\* row[name], for the i-th row that df.iterrows() yields
row_get(frame, i, name) == frame.data[i][column_position(frame.columns, name)]

\* a rebuilding that enables every entry
dataframe_to_entries_enabled(frame) ==
    [i \in 1..Len(frame.data) |->
        with_meta(Lex_Entry(row_get(frame, i, "Phon"),
                            row_get(frame, i, "Category"),
                            row_get(frame, i, "Overall Semantics"),
                            row_get(frame, i, "Morphological Analysis"),
                            TRUE,
                            <<>>),
                  None)]

\* Dictionary.dataframe_to_entries
dataframe_to_entries(frame) ==
    [i \in 1..Len(frame.data) |->
        with_meta(Lex_Entry(row_get(frame, i, "Phon"),
                            row_get(frame, i, "Category"),
                            row_get(frame, i, "Overall Semantics"),
                            row_get(frame, i, "Morphological Analysis"),
                            row_get(frame, i, "enabled"),
                            <<>>),
                  None)]

\* an update that keeps the old entries in front of the new ones
update_with_dataframe_keeping(self, frame) ==
    [self EXCEPT !.contents = self.contents \o dataframe_to_entries(frame)]

\* Dictionary.update_with_dataframe
update_with_dataframe(self, frame) ==
    [self EXCEPT !.contents = dataframe_to_entries(frame)]

\* the entries, the dictionaries and the targets of an update
TablePlainEntry(en, m) ==
    with_meta(Lex_Entry(Phon(<<"a">>, <<>>), Cat(<<>>, <<>>), Sem(<<>>, <<>>),
                        Gloss(<<>>, <<>>), en, <<>>), m)
TableRichEntry(en, m) ==
    with_meta(Lex_Entry(with_meta(Phon(<<"a">>, <<Comment(<<"c">>)>>), m),
                        Cat(<<Cat_AttrVal(<<"k">>, StrValue(<<"v">>), <<>>)>>, <<>>),
                        Sem(<<"s">>, <<>>), Gloss(<<"g">>, <<>>), en,
                        <<Comment(<<"c">>)>>), m)
TableEntries ==
    { TablePlainEntry(TRUE, None), TablePlainEntry(FALSE, Meta(2, 1)),
      TableRichEntry(TRUE, Meta(1, 1)), TableRichEntry(FALSE, None),
      TablePlainEntry(TRUE, EmptyMeta) }
TableDictionaries ==
    { with_meta(Dictionary(DictName, pv.comments, pv.preambles, cont), pv.meta) :
        cont \in SeqUpTo(TableEntries, MaxEntries),
        pv \in { [comments |-> <<>>, preambles |-> <<>>, meta |-> None],
                 [comments |-> <<Comment(<<"c">>)>>,
                  preambles |-> <<Preamble(<<"p">>, <<>>)>>, meta |-> Meta(1, 1)] } }
TargetDictionaries ==
    { with_meta(Dictionary(<<"m">>, pv.comments, pv.preambles, cont), pv.meta) :
        cont \in {<<>>, <<TableRichEntry(TRUE, Meta(1, 1))>>},
        pv \in { [comments |-> <<>>, preambles |-> <<>>, meta |-> None],
                 [comments |-> <<Comment(<<"c">>)>>,
                  preambles |-> <<Preamble(<<"p">>, <<>>)>>, meta |-> Meta(1, 1)] } }

InitTable ==
    /\ pc = "table_start"
    /\ dic \in TableDictionaries
    /\ left = None
    /\ right = None
    /\ df = None
    /\ result = None
    /\ entry = None
    /\ with_comments = FALSE
    /\ seekable = FALSE
    /\ buffer = <<>>
    /\ text = <<>>
    /\ parsed = None
    /\ out = <<>>
    /\ source = None
    /\ lookup = None

\* df = dic.to_dataframe()
ToDataframe ==
    /\ pc = "table_start"
    /\ \E rnd \in [1..Len(dic.contents) -> gen_rand_neg \X gen_rand_neg] :
          df' = to_dataframe(dic, rnd)
    /\ pc' = "tabled"
    /\ UNCHANGED <<left, right, result>>
    /\ UNCHANGED text_vars

\* Dictionary.dataframe_to_entries(df)
DataframeToEntries ==
    /\ pc = "tabled"
    /\ result' = dataframe_to_entries(df)
    /\ pc' = "rebuilt"
    /\ UNCHANGED <<left, right, df>>
    /\ UNCHANGED text_vars

\* target.update_with_dataframe(df): left is the target before the call,
\* right the target after it
UpdateWithDataframe ==
    /\ pc = "tabled"
    /\ \E target \in TargetDictionaries :
          /\ left' = target
          /\ right' = update_with_dataframe(target, df)
    /\ pc' = "updated"
    /\ UNCHANGED <<df, result>>
    /\ UNCHANGED text_vars

NextTable ==
    \/ ToDataframe
    \/ DataframeToEntries
    \/ UpdateWithDataframe

SpecTable == InitTable /\ [][NextTable]_vars

\* the entry has a source position
HasPosition(e) == meta_of(e) # None /\ ~meta_of(e).empty

\* C13: the table has one row per entry, in the order of contents; the
\* columns hold the entry's phon, cat, sem, gloss and enabled flag, and the
\* key is (name, line, column) of the entry's position when it has one
C13_OneRowPerEntry ==
    pc = "tabled" =>
        /\ Len(df.data) = Len(dic.contents)
        /\ Len(df.index) = Len(dic.contents)
        /\ df.index_names = <<"dict_name", "line", "column">>
        /\ \A i \in 1..Len(dic.contents) :
              /\ row_get(df, i, "Phon") = dic.contents[i].phon
              /\ row_get(df, i, "Category") = dic.contents[i].cat
              /\ row_get(df, i, "Overall Semantics") = dic.contents[i].sem
              /\ row_get(df, i, "Morphological Analysis") = dic.contents[i].gloss
              /\ row_get(df, i, "enabled") = dic.contents[i].enabled
              /\ df.index[i][1] = dic.name
              /\ HasPosition(dic.contents[i]) =>
                    df.index[i] = <<dic.name, meta_of(dic.contents[i]).line,
                                    meta_of(dic.contents[i]).column>>

\* a table of two different entries, one of them with a position
C13_Witness ==
    /\ pc = "tabled"
    /\ Len(df.data) = 2
    /\ df.data[1] # df.data[2]
    /\ HasPosition(dic.contents[2])
    /\ row_get(df, 1, "Overall Semantics") # row_get(df, 1, "Morphological Analysis")

\* C14 (as claimed): without a position the line and the column of the key
\* are negative and differ from each other
C14_PlaceholdersDistinct ==
    pc = "tabled" =>
        \A i \in 1..Len(dic.contents) :
            ~HasPosition(dic.contents[i]) =>
                /\ df.index[i][2] < 0
                /\ df.index[i][3] < 0
                /\ df.index[i][2] # df.index[i][3]

\* C14 (amended): without a position the line and the column of the key are
\* each a strictly negative integer, hence different from every line and
\* column of a real position; they are drawn independently and may coincide
C14_PlaceholdersNegative ==
    pc = "tabled" =>
        \A i \in 1..Len(dic.contents) :
            ~HasPosition(dic.contents[i]) =>
                /\ df.index[i][2] < 0
                /\ df.index[i][3] < 0
                /\ \A j \in 1..Len(dic.contents) :
                      HasPosition(dic.contents[j]) =>
                          /\ df.index[i][2] # df.index[j][2]
                          /\ df.index[i][3] # df.index[j][3]
                          /\ df.index[j][2] >= 0
                          /\ df.index[j][3] >= 0

\* an entry without a position is keyed next to one with a position
C14_Witness ==
    /\ pc = "tabled"
    /\ \E i, j \in 1..Len(dic.contents) :
          /\ ~HasPosition(dic.contents[i])
          /\ meta_of(dic.contents[i]) = EmptyMeta
          /\ HasPosition(dic.contents[j])
          /\ df.index[i][2] # df.index[i][3]

\* C15: the entries rebuilt from the table of a Dictionary are as many as its
\* contents, in the same order, each with the original phon, cat, sem, gloss
\* and enabled flag, with no position and no comment of its own; the result
\* is a list of entries that carries no key, comment or preamble
C15_TableRoundTrip ==
    pc = "rebuilt" =>
        /\ Len(result) = Len(dic.contents)
        /\ \A i \in 1..Len(result) :
              /\ result[i].kind = "Lex_Entry"
              /\ result[i].phon = dic.contents[i].phon
              /\ result[i].cat = dic.contents[i].cat
              /\ result[i].sem = dic.contents[i].sem
              /\ result[i].gloss = dic.contents[i].gloss
              /\ result[i].enabled = dic.contents[i].enabled
              /\ meta_of(result[i]) = None
              /\ result[i].comments = <<>>
              /\ DOMAIN result[i] =
                    {"kind", "phon", "cat", "sem", "gloss", "enabled", "comments", "meta"}

\* two entries with positions and comments went through the table
C15_Witness ==
    /\ pc = "rebuilt"
    /\ Len(result) = 2
    /\ result[1] # result[2]
    /\ dic.comments # <<>>
    /\ dic.preambles # <<>>
    /\ \E i \in 1..2 : HasPosition(dic.contents[i]) /\ dic.contents[i].comments # <<>>
    /\ \E i \in 1..2 : ~dic.contents[i].enabled

\* C16: update_with_dataframe replaces the contents with the entries rebuilt
\* from the rows and leaves the name, the preambles, the comments and the
\* position of the dictionary as they were
C16_UpdateReplacesContents ==
    pc = "updated" =>
        /\ right.contents = dataframe_to_entries(df)
        /\ Len(right.contents) = Len(df.data)
        /\ \A i \in 1..Len(right.contents) :
              /\ right.contents[i].phon = row_get(df, i, "Phon")
              /\ right.contents[i].enabled = row_get(df, i, "enabled")
        /\ right.name = left.name
        /\ right.preambles = left.preambles
        /\ right.comments = left.comments
        /\ meta_of(right) = meta_of(left)
        /\ right.kind = left.kind

\* a dictionary that held an entry is updated with rows that do not hold it
C16_Witness ==
    /\ pc = "updated"
    /\ left.contents # <<>>
    /\ left.preambles # <<>>
    /\ meta_of(left) # None
    /\ df.data # <<>>
    /\ \A i \in 1..Len(right.contents) : right.contents[i] # left.contents[1]

(***************************************************************************)
(* SpecMask: the masking of redundant entries by the script                *)
(* examples/pyksnk/mordict/check_duplicated_phon_gloss.py: the table of a  *)
(* parsed dictionary gets the columns check_dup and touch, is grouped by   *)
(* check_dup, and del_redundant disables rows group by group.              *)
(***************************************************************************)
\* the line above which a row may be disabled
TouchThreshold == 10000

SCAT == <<"s", "c", "a", "t">>
COMP == <<"c", "o", "m", "p">>

\* the value of a Cat_AttrVal as Python holds it: a str or a list of str
python_value(v) == IF v.islist THEN v.toks ELSE v.toks[1]

\* tuple(map(lambda kv: kv.value, c["scat"]))
scats(c) ==
    LET items == Cat_getitem(c, SCAT)
    IN [k \in 1..Len(items) |-> items[k].value]

\* the member of check_dup for the i-th row: zip(Phon, scats, Sem)
check_dup(frame, i) ==
    <<row_get(frame, i, "Phon"), scats(row_get(frame, i, "Category")),
      row_get(frame, i, "Overall Semantics")>>

\* the member of touch for the i-th row
touch(frame, i) == frame.index[i][2] > TouchThreshold

\* the table with the columns check_dup and touch added
with_check_columns(frame) ==
    [frame EXCEPT
        !.columns = frame.columns \o <<"check_dup", "touch">>,
        !.data = [i \in 1..Len(frame.data) |->
                     frame.data[i] \o <<check_dup(frame, i), touch(frame, i)>>]]

\* hash of a member of check_dup, which groupby takes: a list among the
\* values of scat makes it raise TypeError
hash_check_dup(key) ==
    hash_tuple(<<attrs_hash(key[1]),
                 hash_tuple([k \in 1..Len(key[2]) |-> hash_value(key[2][k])]),
                 attrs_hash(key[3])>>)

\* == on two members of check_dup
check_dup_eq(a, b) ==
    /\ attrs_eq(a[1], b[1])
    /\ Len(a[2]) = Len(b[2])
    /\ \A k \in 1..Len(a[2]) : python_value(a[2][k]) = python_value(b[2][k])
    /\ attrs_eq(a[3], b[3])

\* the rows of the group the i-th row belongs to
group_rows(frame, i) ==
    { j \in 1..Len(frame.data) :
        check_dup_eq(row_get(frame, j, "check_dup"), row_get(frame, i, "check_dup")) }

\* the score of del_redundant: having_comp + having_gloss
score(frame, i) ==
    Len(Cat_getitem(row_get(frame, i, "Category"), COMP))
    + (IF row_get(frame, i, "Morphological Analysis").value # <<>> THEN 1 ELSE 0)

\* a maximum taken over the rows of all the groups
score_max_global(frame, i) ==
    CHOOSE m \in { score(frame, j) : j \in 1..Len(frame.data) } :
        \A j \in 1..Len(frame.data) : score(frame, j) <= m

\* score.max() within the group of the i-th row
score_max(frame, i) ==
    CHOOSE m \in { score(frame, j) : j \in group_rows(frame, i) } :
        \A j \in group_rows(frame, i) : score(frame, j) <= m

\* a mask that forgets the column touch
del_redundant_mask_untouched(frame, i) == score(frame, i) # score_max(frame, i)

\* df["touch"] & (score != score.max())
del_redundant_mask(frame, i) ==
    row_get(frame, i, "touch") /\ score(frame, i) # score_max(frame, i)

\* df.loc[mask, "enabled"] = False, on every group
del_redundant(frame) ==
    [frame EXCEPT
        !.data = [i \in 1..Len(frame.data) |->
                     IF del_redundant_mask(frame, i)
                     THEN [frame.data[i] EXCEPT
                              ![column_position(frame.columns, "enabled")] = FALSE]
                     ELSE frame.data[i]]]

\* dic_pd.groupby("check_dup").apply(del_redundant): the masked table, or
\* the TypeError of a member of check_dup that cannot be hashed
groupby_apply_del_redundant(frame) ==
    IF \A i \in 1..Len(frame.data) : hash_check_dup(row_get(frame, i, "check_dup")).ok
    THEN [ok |-> TRUE, frame |-> del_redundant(frame)]
    ELSE [ok |-> FALSE]

\* the entries of the masked dictionaries; the i-th entry of a dictionary is
\* at line base + i
MaskCats ==
    { Cat(avs, <<>>) :
        avs \in { <<Cat_AttrVal(SCAT, StrValue(<<"n">>), <<>>)>>,
                  <<Cat_AttrVal(SCAT, StrValue(<<"n">>), <<>>),
                    Cat_AttrVal(COMP, StrValue(<<"x">>), <<>>)>>,
                  <<Cat_AttrVal(SCAT, StrValue(<<"v">>), <<>>)>>,
                  <<Cat_AttrVal(SCAT, ListValue(<< <<"n">>, <<"v">> >>), <<>>)>> } }
MaskLineBases == {TouchThreshold - 1, 49999}
MaskRows ==
    { [cat |-> c, sem |-> s, gloss |-> g, enabled |-> en, base |-> b] :
        c \in MaskCats, s \in {<<>>}, g \in {<<>>, <<"g">>}, en \in BOOLEAN,
        b \in MaskLineBases }
MaskEntry(r, i) ==
    with_meta(Lex_Entry(Phon(<<"a">>, <<>>), r.cat, Sem(r.sem, <<>>), Gloss(r.gloss, <<>>),
                        r.enabled, <<>>),
              Meta(r.base + i, 1))
MaskDictionaries ==
    { Dictionary(DictName, <<>>, <<>>, [i \in 1..Len(rs) |-> MaskEntry(rs[i], i)]) :
        rs \in SeqUpTo(MaskRows, MaxMaskRows) }

InitMask ==
    /\ pc = "mask_start"
    /\ dic \in MaskDictionaries
    /\ left = None
    /\ right = None
    /\ df = None
    /\ result = None
    /\ entry = None
    /\ with_comments = FALSE
    /\ seekable = FALSE
    /\ buffer = <<>>
    /\ text = <<>>
    /\ parsed = None
    /\ out = <<>>
    /\ source = None
    /\ lookup = None

\* dic_pd = dic.to_dataframe() and the two added columns; every entry of a
\* parsed dictionary has a position, so that no placeholder is drawn
AddCheckColumns ==
    /\ pc = "mask_start"
    /\ df' = with_check_columns(
                 to_dataframe(dic, [i \in 1..Len(dic.contents) |-> <<-1, -1>>]))
    /\ pc' = "mask_tabled"
    /\ UNCHANGED <<left, right, result>>
    /\ UNCHANGED text_vars

\* dic_discard_redundants = dic_pd_gr.apply(del_redundant)
DelRedundant ==
    /\ pc = "mask_tabled"
    /\ result' = groupby_apply_del_redundant(df)
    /\ pc' = "masked"
    /\ UNCHANGED <<left, right, df>>
    /\ UNCHANGED text_vars

\* dic.update_with_dataframe(dic_discard_redundants)
MaskUpdate ==
    /\ pc = "masked"
    /\ result.ok
    /\ right' = update_with_dataframe(dic, result.frame)
    /\ pc' = "mask_updated"
    /\ UNCHANGED <<left, df, result>>
    /\ UNCHANGED text_vars

NextMask ==
    \/ AddCheckColumns
    \/ DelRedundant
    \/ MaskUpdate

SpecMask == InitMask /\ [][NextMask]_vars

\* the fingerprint of an entry: Phon, the values of its scat features in
\* order, Sem
Fingerprint(e) ==
    <<e.phon.value,
      [k \in 1..Len(Cat_getitem(e.cat, SCAT)) |->
          python_value(Cat_getitem(e.cat, SCAT)[k].value)],
      e.sem.value>>

\* the score of an entry: its comp features, plus one for a Gloss
Score(e) ==
    Cardinality({ k \in 1..Len(e.cat.attrvals) : e.cat.attrvals[k].key = COMP })
    + (IF e.gloss.value = <<>> THEN 0 ELSE 1)

\* the entry is above the threshold and scores below an entry of its group
Redundant(es, i) ==
    /\ meta_of(es[i]).line > 10000
    /\ \E j \in 1..Len(es) :
          Fingerprint(es[j]) = Fingerprint(es[i]) /\ Score(es[j]) > Score(es[i])

\* C17: the masking succeeds, and it sets enabled = false on exactly the rows
\* above the threshold that score below the maximum of their fingerprint
\* group; every other row keeps its flag
C17_MaskingRule ==
    pc = "masked" =>
        /\ result.ok
        /\ Len(result.frame.data) = Len(dic.contents)
        /\ \A i \in 1..Len(dic.contents) :
              row_get(result.frame, i, "enabled") =
                  IF Redundant(dic.contents, i) THEN FALSE ELSE dic.contents[i].enabled

(***************************************************************************)
(* SpecSentence: the transformer of the sentence-annotation format         *)
(* (src/pyksnk/morcomb.py) builds the words of a Sentence from the trees   *)
(* of its six lines.  The source of a column is its header row and its     *)
(* continuation rows; the parser gathers the cells of all the rows, in     *)
(* source order, as the children of the tree of the line.                  *)
(***************************************************************************)
\* a lark.Token
Token(type, value) == [type |-> type, value |-> value]
\* a lark.Tree
Tree(data, children) == [data |-> data, children |-> children]

\* WordAnalysisCandidates(alts)
WordAnalysisCandidates(alts) == [kind |-> "WordAnalysisCandidates", alts |-> alts]

\* Word(mor_candidates, comb, penn, ort)
Word(m, c, p, o) == [kind |-> "Word", mor_candidates |-> m, comb |-> c, penn |-> p, ort |-> o]

\* Sentence(id_str, chi, words)
Sentence(id_str, chi, words) ==
    [kind |-> "Sentence", id_str |-> id_str, chi |-> chi, words |-> words]

\* the transformer's list_mor
list_mor(args) == WordAnalysisCandidates([i \in 1..Len(args) |-> args[i].value])

\* the greater of two lengths
Max(a, b) == IF a >= b THEN a ELSE b
\* the smaller of two lengths
Min(a, b) == IF a <= b THEN a ELSE b

\* a zip that stops at the end of the shortest column
zip_shortest(a, b, c, d) ==
    [i \in 1..Min(Min(Len(a), Len(b)), Min(Len(c), Len(d))) |->
        <<a[i], b[i], c[i], d[i]>>]

\* itertools.zip_longest(a, b, c, d): the fill value is None
zip_longest(a, b, c, d) ==
    [i \in 1..Max(Max(Len(a), Len(b)), Max(Len(c), Len(d))) |->
        << IF i <= Len(a) THEN a[i] ELSE None,
           IF i <= Len(b) THEN b[i] ELSE None,
           IF i <= Len(c) THEN c[i] ELSE None,
           IF i <= Len(d) THEN d[i] ELSE None >>]

\* Word.iter_from_columns
iter_from_columns(mor, comb, penn, ort) ==
    LET zipped == zip_longest(mor, comb, penn, ort)
    IN [i \in 1..Len(zipped) |->
           Word(zipped[i][1], zipped[i][2], zipped[i][3], zipped[i][4])]

\* map(lambda x: x.value, tokens)
token_values(tokens) == [i \in 1..Len(tokens) |-> tokens[i].value]

\* squash_tokens
squash_tokens(tokens) == Flatten(token_values(tokens))

\* res[name] of res = {subtree.data: subtree.children for subtree in args}
subtree_children(args, name) ==
    args[CHOOSE i \in 1..Len(args) :
            /\ args[i].data = name
            /\ \A j \in (i + 1)..Len(args) : args[j].data # name].children

\* the transformer's sentence
sentence(args) ==
    Sentence(squash_tokens(subtree_children(args, "line_num")),
             squash_tokens(subtree_children(args, "line_chi")),
             iter_from_columns(subtree_children(args, "line_mor"),
                               token_values(subtree_children(args, "line_comb")),
                               token_values(subtree_children(args, "line_penn")),
                               token_values(subtree_children(args, "line_ort"))))

\* the tree of a line of cells: the cells of the header row and of the rows
\* of the indented block, the ignored tokens filtered out
line_tree(data, rows) == Tree(data, Flatten(rows))

\* the trees of the six lines of a sentence, which the parser hands to the
\* transformer's sentence
sentence_trees(src) ==
    << Tree("line_chi", <<Token("TILL_EOL", src.chi)>>),
       line_tree("line_mor", src.mor),
       line_tree("line_comb", src.comb),
       line_tree("line_penn", src.penn),
       line_tree("line_ort", src.ort),
       Tree("line_num", <<Token("TILL_EOL", src.num)>>) >>

\* the text of the k-th cell of a column, in source order
Digits == <<"1", "2", "3", "4", "5">>
CellText(col, k) == <<col, Digits[k]>>

\* the rows of a column: h cells in the header row and, when there is an
\* indented block, one continuation row that holds the next c cells
ColumnRows(col, h, c, block, cell(_, _)) ==
    <<[k \in 1..h |-> cell(col, k)]>>
    \o (IF block THEN <<[k \in 1..c |-> cell(col, h + k)]>> ELSE <<>>)

\* a cell of %comb, %penn or %ort: a STR token
StrCell(col, k) == Token("STR", CellText(col, k))
\* a cell of %mor: the candidates of one word, made by list_mor
MorCell(col, k) ==
    list_mor([a \in 1..(IF k = 1 THEN 2 ELSE 1) |->
                 Token("WORD_CAND", CellText(col, k) \o <<Digits[a]>>)])

\* the layouts of a column of at most MaxCells cells; the header row of %mor
\* holds at least one cell
ColumnLayouts(minHeader) ==
    { [h |-> h, c |-> c, block |-> b] :
        h \in minHeader..MaxCells, c \in 0..MaxCells, b \in BOOLEAN }
ColumnLayoutsWithin(minHeader) ==
    { l \in ColumnLayouts(minHeader) : l.h + l.c <= MaxCells /\ (~l.block => l.c = 0) }

InitSentence ==
    /\ pc = "sentence_start"
    /\ \E lm \in ColumnLayoutsWithin(1) :
       \E lc \in ColumnLayoutsWithin(0), lp \in ColumnLayoutsWithin(0),
          lo \in ColumnLayoutsWithin(0) :
          source = [chi |-> <<"u">>, num |-> <<"7">>,
                    mor |-> ColumnRows("m", lm.h, lm.c, lm.block, MorCell),
                    comb |-> ColumnRows("c", lc.h, lc.c, lc.block, StrCell),
                    penn |-> ColumnRows("p", lp.h, lp.c, lp.block, StrCell),
                    ort |-> ColumnRows("o", lo.h, lo.c, lo.block, StrCell)]
    /\ left = None
    /\ right = None
    /\ df = None
    /\ result = None
    /\ entry = None
    /\ dic = None
    /\ with_comments = FALSE
    /\ seekable = FALSE
    /\ buffer = <<>>
    /\ text = <<>>
    /\ parsed = None
    /\ out = <<>>
    /\ lookup = None

\* the transformer's sentence on the trees of the six lines
TransformSentence ==
    /\ pc = "sentence_start"
    /\ result' = sentence(sentence_trees(source))
    /\ pc' = "sentence_built"
    /\ UNCHANGED <<left, right, df>>
    /\ UNCHANGED text_vars

NextSentence == TransformSentence

SpecSentence == InitSentence /\ [][NextSentence]_vars

\* the number of cells of a column of the source
NumCells(rows) == Len(Flatten(rows))

\* the i-th cell of a column of the source, or None past its end
ExpectedCell(rows, col, i) == IF i <= NumCells(rows) THEN CellText(col, i) ELSE None

\* C18: the words are as many as the cells of the longest column; the i-th
\* word holds the i-th cell of each column in source order, and None where
\* the column is shorter
C18_PositionalZipper ==
    pc = "sentence_built" =>
        /\ Len(result.words) =
              Max(Max(NumCells(source.mor), NumCells(source.comb)),
                  Max(NumCells(source.penn), NumCells(source.ort)))
        /\ \A i \in 1..Len(result.words) :
              /\ result.words[i].comb = ExpectedCell(source.comb, "c", i)
              /\ result.words[i].penn = ExpectedCell(source.penn, "p", i)
              /\ result.words[i].ort = ExpectedCell(source.ort, "o", i)
              /\ IF i <= NumCells(source.mor)
                 THEN /\ result.words[i].mor_candidates # None
                      /\ \A a \in 1..Len(result.words[i].mor_candidates.alts) :
                            result.words[i].mor_candidates.alts[a]
                                = CellText("m", i) \o <<Digits[a]>>
                 ELSE result.words[i].mor_candidates = None

\* columns of unequal length, one of them continued on an indented row
C18_Witness ==
    /\ pc = "sentence_built"
    /\ Len(result.words) = 2
    /\ result.words[2].comb = None
    /\ result.words[2].ort # None
    /\ Len(source.ort) = 2
    /\ Len(source.ort[1]) = 1
    /\ result.words[1].penn = None

(***************************************************************************)
(* SpecYaml: the YAML representation of a WordAnalysisCandidates.  The     *)
(* class hands a sequence node to the representer (to_yaml) and reads the  *)
(* alternatives back from a sequence node (from_yaml); the nodes are those *)
(* of ruamel.yaml.                                                         *)
(***************************************************************************)
yaml_tag == "!WAC"
StrTag == "tag:yaml.org,2002:str"

\* ruamel.yaml's node of a scalar
ScalarNode(tag, value) == [node |-> "scalar", tag |-> tag, value |-> value]
\* ruamel.yaml's node of a sequence
SequenceNode(tag, value, flow_style) ==
    [node |-> "sequence", tag |-> tag, value |-> value, flow_style |-> flow_style]

\* representer.represent_sequence(tag, sequence, flow_style) on a list of str
represent_sequence(tag, sequence, flow_style) ==
    SequenceNode(tag, [i \in 1..Len(sequence) |-> ScalarNode(StrTag, sequence[i])],
                 flow_style)

\* constructor.construct_rt_sequence(node, seqtyp, deep = True)
construct_rt_sequence(node) == [i \in 1..Len(node.value) |-> node.value[i].value]

\* an is_ambiguous that holds of every non-empty list
is_ambiguous_nonempty(self) == Len(self.alts) >= 1

\* WordAnalysisCandidates.is_ambiguous
is_ambiguous(self) == Len(self.alts) > 1

\* WordAnalysisCandidates.to_yaml
to_yaml(node) == represent_sequence(yaml_tag, node.alts, ~is_ambiguous(node))

\* WordAnalysisCandidates.from_yaml: res = cls([]), then res.alts = gotten
from_yaml(node) ==
    [WordAnalysisCandidates(<<>>) EXCEPT !.alts = construct_rt_sequence(node)]

\* the analyses of the alternatives
Analyses == {<<"n">>, <<"v">>, <<"n", "v">>}

InitYaml ==
    /\ pc = "yaml_start"
    /\ \E alts \in SeqUpTo(Analyses, MaxAlts) : left = WordAnalysisCandidates(alts)
    /\ right = None
    /\ df = None
    /\ result = None
    /\ entry = None
    /\ dic = None
    /\ with_comments = FALSE
    /\ seekable = FALSE
    /\ buffer = <<>>
    /\ text = <<>>
    /\ parsed = None
    /\ out = <<>>
    /\ source = None
    /\ lookup = None

\* the candidates are represented as a node
ToYaml ==
    /\ pc = "yaml_start"
    /\ df' = to_yaml(left)
    /\ pc' = "encoded"
    /\ UNCHANGED <<left, right, result>>
    /\ UNCHANGED text_vars

\* the node is constructed back into candidates
FromYaml ==
    /\ pc = "encoded"
    /\ result' = from_yaml(df)
    /\ pc' = "decoded"
    /\ UNCHANGED <<left, right, df>>
    /\ UNCHANGED text_vars

NextYaml ==
    \/ ToYaml
    \/ FromYaml

SpecYaml == InitYaml /\ [][NextYaml]_vars

\* C19: candidates are ambiguous iff they hold more than one alternative;
\* the node of one alternative is in flow style and the node of more than
\* one is in block style; the candidates constructed from either node hold
\* the same alternatives in the same order
C19_FlowBlockLaw ==
    /\ pc \in {"yaml_start", "encoded", "decoded"} =>
          (is_ambiguous(left) <=> Len(left.alts) > 1)
    /\ pc \in {"encoded", "decoded"} =>
          /\ df.tag = yaml_tag
          /\ Len(left.alts) = 1 => df.flow_style = TRUE
          /\ Len(left.alts) > 1 => df.flow_style = FALSE
    /\ pc = "decoded" =>
          /\ result.kind = "WordAnalysisCandidates"
          /\ result.alts = left.alts

\* two different alternatives went through a block node and came back
C19_Witness ==
    /\ pc = "decoded"
    /\ Len(left.alts) = 2
    /\ left.alts[1] # left.alts[2]
    /\ df.flow_style = FALSE
    /\ result.alts[1] = left.alts[1]

(***************************************************************************)
(* SpecLine: one line of a dictionary file is parsed and the entry it      *)
(* gives is serialized.  The lines are laid out from a phon, a bracket     *)
(* [scat n] with or without braces around it, an optional sem, an optional *)
(* gloss and a line end.                                                   *)
(***************************************************************************)
LinePhons == {<<"c", "a", "t">>, <<"a">>}
LineSem == <<"a", "n", "i", "m", "a", "l">>
LineGloss == <<"a", SP, "f", "e", "l", "i", "n", "e">>
LineKey == <<"s", "c", "a", "t">>
LineValue == <<"n">>
LineEnds == {<<>>, <<NL>>, <<CR, NL>>}

\* the layouts of a line
LineSources ==
    [phon : LinePhons, braces : BOOLEAN, sem : BOOLEAN, gloss : BOOLEAN, eol : LineEnds]

\* the text of a line laid out as src describes
LineText(src) ==
    src.phon \o <<TAB>>
    \o (IF src.braces THEN <<"{">> ELSE <<>>)
    \o <<"[">> \o LineKey \o <<SP>> \o LineValue \o <<"]">>
    \o (IF src.braces THEN <<"}">> ELSE <<>>)
    \o (IF src.sem THEN <<SP, "=">> \o LineSem \o <<"=">> ELSE <<>>)
    \o (IF src.gloss THEN <<SP, "\"">> \o LineGloss \o <<"\"">> ELSE <<>>)
    \o src.eol

InitLine ==
    /\ pc = "line_start"
    /\ source \in LineSources
    /\ text = LineText(source)
    /\ with_comments \in BOOLEAN
    /\ seekable \in BOOLEAN
    /\ entry = None
    /\ dic = None
    /\ buffer = <<>>
    /\ parsed = None
    /\ out = <<>>
    /\ lookup = None
    /\ left = None
    /\ right = None
    /\ df = None
    /\ result = None

\* parse(name, text) on the line
ParseLine ==
    /\ pc = "line_start"
    /\ parsed' = parse(DictName, text)
    /\ pc' = "line_parsed"
    /\ UNCHANGED <<entry, dic, with_comments, seekable, buffer, text, out, source, lookup>>
    /\ UNCHANGED value_vars

\* dump_mordict of the entry of the line into an empty sink
DumpLine ==
    /\ pc = "line_parsed"
    /\ parsed.ok
    /\ Len(parsed.dic.contents) = 1
    /\ out' = Lex_Entry_dump_mordict(<<>>, parsed.dic.contents[1], with_comments, seekable)
    /\ pc' = "line_dumped"
    /\ UNCHANGED <<entry, dic, with_comments, seekable, buffer, text, parsed, source, lookup>>
    /\ UNCHANGED value_vars

NextLine ==
    \/ ParseLine
    \/ DumpLine

SpecLine == InitLine /\ [][NextLine]_vars

\* the entry that a line gives, with the values of the scenario
LineEntry(src) ==
    Lex_Entry(Phon(src.phon, <<>>),
              Cat(<<Cat_AttrVal(LineKey, StrValue(LineValue), <<>>)>>, <<>>),
              Sem(IF src.sem THEN LineSem ELSE <<>>, <<>>),
              Gloss(IF src.gloss THEN LineGloss ELSE <<>>, <<>>),
              TRUE, <<>>)

\* the line of the scenario as it is claimed: the bracket without braces
ClaimedLine ==
    [phon |-> <<"c", "a", "t">>, braces |-> FALSE, sem |-> TRUE, gloss |-> TRUE,
     eol |-> <<NL>>]

\* the line of the scenario with the braces of a Cat around the bracket
BracedLine == [ClaimedLine EXCEPT !.braces = TRUE]

\* C20: the line 'cat<TAB>[scat n] =animal= "a feline"<NEWLINE>' parses to a
\* dictionary of one entry with Phon 'cat', the pair (scat, n), Sem 'animal',
\* Gloss 'a feline' and enabled true, and the entry is serialized as that line
C20_Scenario ==
    (source = ClaimedLine /\ pc \in {"line_parsed", "line_dumped"}) =>
        /\ parsed.ok
        /\ parsed.dic.contents = <<LineEntry(source)>>
        /\ pc = "line_dumped" => out = text

\* C20, with the braces: a line whose bracket stands in braces parses to a
\* dictionary of one enabled entry with the Phon, the pair (scat, n), the
\* Sem and the Gloss of the line, and the entry is serialized as the line
\* closed by one newline; a line whose bracket stands without braces is
\* rejected
C20_ScenarioWithBraces ==
    pc \in {"line_parsed", "line_dumped"} =>
        /\ parsed.ok <=> source.braces
        /\ parsed.ok =>
              /\ parsed.dic.contents = <<LineEntry(source)>>
              /\ parsed.dic.contents[1].enabled
              /\ parsed.dic.contents[1].cat.attrvals[1].key = <<"s", "c", "a", "t">>
              /\ parsed.dic.contents[1].cat.attrvals[1].value = StrValue(<<"n">>)
        /\ pc = "line_dumped" =>
              out = SubSeq(text, 1, Len(text) - Len(source.eol)) \o <<NL>>

\* the braced line of the scenario was parsed and its entry serialized
C20_Witness ==
    /\ pc = "line_dumped"
    /\ source = BracedLine
    /\ text = <<"c", "a", "t", TAB, "{", "[", "s", "c", "a", "t", SP, "n", "]", "}",
                SP, "=", "a", "n", "i", "m", "a", "l", "=",
                SP, "\"", "a", SP, "f", "e", "l", "i", "n", "e", "\"", NL>>
    /\ out = text

(***************************************************************************)
(* SpecAtomic: parse(name, text) on texts of several lines, some of which  *)
(* break the grammar.                                                      *)
(***************************************************************************)
\* lines that follow the grammar, with the entries they stand for
GoodLines ==
    { [good |-> TRUE, text |-> LineText(src), entry |-> LineEntry(src)] :
        src \in { [phon |-> <<"a">>, braces |-> TRUE, sem |-> FALSE, gloss |-> FALSE,
                   eol |-> <<NL>>],
                  BracedLine } }

\* lines that break the grammar: a bracket without braces, a brace that is
\* not closed, a line without a Phon, a bracket that is not opened
BadLines ==
    { [good |-> FALSE, text |-> t, entry |-> None] :
        t \in { LineText([phon |-> <<"a">>, braces |-> FALSE, sem |-> FALSE,
                          gloss |-> FALSE, eol |-> <<NL>>]),
                <<"a", TAB, "{", "[", "s", SP, "n", "]", NL>>,
                <<"{", "}", NL>>,
                <<"a", TAB, "{", "]", "}", NL>> } }

AtomicNames == {<<"n">>, <<"m">>}

InitAtomic ==
    /\ pc = "text_start"
    /\ \E nm \in AtomicNames, ls \in SeqUpTo(GoodLines \cup BadLines, MaxLines) :
          source = [name |-> nm, lines |-> ls]
    /\ text = Flatten([i \in 1..Len(source.lines) |-> source.lines[i].text])
    /\ with_comments = TRUE
    /\ seekable = TRUE
    /\ entry = None
    /\ dic = None
    /\ buffer = <<>>
    /\ parsed = None
    /\ out = <<>>
    /\ lookup = None
    /\ left = None
    /\ right = None
    /\ df = None
    /\ result = None

\* parse(name, text) on the whole text
ParseText ==
    /\ pc = "text_start"
    /\ parsed' = parse(source.name, text)
    /\ pc' = "text_parsed"
    /\ UNCHANGED <<entry, dic, with_comments, seekable, buffer, text, out, source, lookup>>
    /\ UNCHANGED value_vars

NextAtomic == ParseText

SpecAtomic == InitAtomic /\ [][NextAtomic]_vars

\* C21: parse gives either a Dictionary of the given name whose entries are
\* those of all the lines of the text, or an error and nothing else; a line
\* that breaks the grammar anywhere in the text gives the error, and the
\* entries of the lines before it are not given
C21_ParseAtomic ==
    pc = "text_parsed" =>
        IF \A i \in 1..Len(source.lines) : source.lines[i].good
        THEN /\ parsed.ok
             /\ parsed.dic.kind = "Dictionary"
             /\ parsed.dic.name = source.name
             /\ parsed.dic.contents =
                   [i \in 1..Len(source.lines) |-> source.lines[i].entry]
        ELSE parsed = Failure

\* two lines were read as entries before the line that breaks the grammar
C21_Witness ==
    /\ pc = "text_parsed"
    /\ Len(source.lines) = 3
    /\ source.lines[1].good
    /\ source.lines[2].good
    /\ ~source.lines[3].good
    /\ parsed = Failure

(***************************************************************************)
(* SpecSink: the close of Lex_Entry.dump_mordict on the sinks a caller can *)
(* hand over as a typing.TextIO.  A sink is its text, its position and the *)
(* answers of seekable() and readable(); the writes happen at the end of   *)
(* the text.  dump_final_newline is this close on a sink that can be read. *)
(***************************************************************************)
Sink(seek, rd, t) == [seekable |-> seek, readable |-> rd, text |-> t, pos |-> Len(t)]

\* an io.StringIO, a file opened with mode "w", a pipe
SinkKinds ==
    { [seekable |-> TRUE, readable |-> TRUE],
      [seekable |-> TRUE, readable |-> FALSE],
      [seekable |-> FALSE, readable |-> FALSE] }

\* buffer.tell()
sink_tell(sink) == sink.pos
\* buffer.seek(p)
sink_seek(sink, p) == [sink EXCEPT !.pos = p]
\* buffer.write(s) at the end of the text
sink_write(sink, s) == [sink EXCEPT !.text = @ \o s, !.pos = Len(sink.text) + Len(s)]
\* what buffer.read() gives: the text from the position to the end
sink_read(sink) == SubSeq(sink.text, sink.pos + 1, Len(sink.text))

\* `s in "\n\r"`: s is a substring of "\n\r"
in_newlines(s) == s \in {<<>>, <<NL>>, <<CR>>, <<NL, CR>>}

\* the lines `if buffer.seekable(): ... else: buffer.write("\n")`; read()
\* raises io.UnsupportedOperation on a sink that is not readable
close_entry(sink) ==
    IF sink.seekable
    THEN IF ~sink.readable
         THEN [ok |-> FALSE, sink |-> sink_seek(sink, sink_tell(sink) - 1)]
         ELSE IF ~in_newlines(sink_read(sink_seek(sink, sink_tell(sink) - 1)))
              THEN [ok |-> TRUE, sink |-> sink_write(sink, <<NL>>)]
              ELSE [ok |-> TRUE, sink |-> sink_seek(sink, Len(sink.text))]
    ELSE [ok |-> TRUE, sink |-> sink_write(sink, <<NL>>)]

\* what dump_mordict has written to the sink when it comes to the close
entry_body(buf, self, with_c) ==
    dump_entry_comments(IF self.enabled THEN dump_enabled(buf, self, with_c)
                        ELSE dump_disabled(buf, self, with_c),
                        self, with_c)

\* Lex_Entry.dump_mordict on a sink
dump_mordict_to_sink(sink, self, with_c) ==
    close_entry(Sink(sink.seekable, sink.readable, entry_body(sink.text, self, with_c)))

InitSink ==
    /\ pc = "sink_start"
    /\ \E sv \in SemValues, gv \in GlossValues, en \in BOOLEAN :
       \E c4 \in CommentLists(MaxComments) :
       \E c5 \in CommentLists(MaxComments - Len(c4)) :
          entry = Lex_Entry(Phon(<<"a">>, <<>>), Cat(<<>>, <<>>), Sem(sv, <<>>),
                            Gloss(gv, c4), en, c5)
    /\ with_comments \in BOOLEAN
    /\ \E k \in SinkKinds, t \in {<<>>, <<"p", NL>>} : left = Sink(k.seekable, k.readable, t)
    /\ seekable = left.seekable
    /\ dic = None
    /\ buffer = <<>>
    /\ text = <<>>
    /\ parsed = None
    /\ out = <<>>
    /\ source = None
    /\ lookup = None
    /\ right = None
    /\ df = None
    /\ result = None

\* entry.dump_mordict(sink, with_comments)
DumpToSink ==
    /\ pc = "sink_start"
    /\ result' = dump_mordict_to_sink(left, entry, with_comments)
    /\ pc' = "sink_closed"
    /\ UNCHANGED <<left, right, df>>
    /\ UNCHANGED text_vars

NextSink == DumpToSink

SpecSink == InitSink /\ [][NextSink]_vars

\* the last text written before the close is a comment
EndsWithComment(e, with_c) ==
    with_c /\ (e.comments # <<>> \/ e.gloss.comments # <<>>)
           /\ Last(entry_body(<<>>, e, with_c)) = NL

\* C22: on a seekable sink the close appends a newline iff the last
\* character written is neither a newline nor a carriage return, and leaves
\* the sink at its end; on another sink it appends a newline whatever was
\* written, so that two newlines follow a last comment
C22_LookBackNewline ==
    pc = "sink_closed" =>
        /\ result.ok
        /\ result.sink.pos = Len(result.sink.text)
        /\ LET body == entry_body(left.text, entry, with_comments)
           IN IF left.seekable
              THEN result.sink.text =
                      (IF Last(body) \in {NL, CR} THEN body ELSE body \o <<NL>>)
              ELSE /\ result.sink.text = body \o <<NL>>
                   /\ EndsWithComment(entry, with_comments) =>
                         SubSeq(result.sink.text, Len(result.sink.text) - 1,
                                Len(result.sink.text)) = <<NL, NL>>

\* on the sinks that can be read or cannot be sought, the close is as
\* stated and is that of dump_final_newline
LookBackOnReadableSinks ==
    (pc = "sink_closed" /\ (left.readable \/ ~left.seekable)) =>
        /\ C22_LookBackNewline
        /\ result.sink.text =
              dump_final_newline(entry_body(left.text, entry, with_comments), left.seekable)

(***************************************************************************)
(* SpecIndent: the post-lexer of the sentence-annotation format, the       *)
(* Indenter of Lark as __Indenter sets it up (NL_type _NEWLINES, no        *)
(* parentheses, tab_len 4).  It is handed the _NEWLINES tokens of a text   *)
(* one after the other; a token is the text that _NEWLINES matched.       *)
(***************************************************************************)
tab_len == 4

\* str.count(c)
count(s, c) == Cardinality({ i \in 1..Len(s) : s[i] = c })

RECURSIVE last_index(_, _, _)
\* the index of the last character of s up to i that is in S, or 0
last_index(s, i, S) ==
    IF i = 0 THEN 0 ELSE IF s[i] \in S THEN i ELSE last_index(s, i - 1, S)

\* token.rsplit('\n', 1): the parts around the last '\n', or the token alone
rsplit_newline(token) ==
    LET k == last_index(token, Len(token), {NL})
    IN IF k = 0 THEN <<token>>
       ELSE <<SubSeq(token, 1, k - 1), SubSeq(token, k + 1, Len(token))>>

RECURSIVE pop_until(_, _, _)
\* while indent < self.indent_level[-1]: pop and yield a _DEDENT
pop_until(stack, indent, emitted) ==
    IF indent < Last(stack)
    THEN pop_until(SubSeq(stack, 1, Len(stack) - 1), indent, Append(emitted, "_DEDENT"))
    ELSE [stack |-> stack, emitted |-> emitted]

\* a handle_NL that pops one level at most
handle_NL_one_pop(stack, token) ==
    LET parts == rsplit_newline(token)
    IN IF Len(parts) < 2
       THEN [stack |-> stack, emitted |-> <<"_NEWLINES">>, error |-> TRUE]
       ELSE LET indent == count(parts[2], SP) + count(parts[2], TAB) * tab_len
            IN IF indent > Last(stack)
               THEN [stack |-> Append(stack, indent),
                     emitted |-> <<"_NEWLINES", "_INDENT">>, error |-> FALSE]
               ELSE IF indent < Last(stack)
               THEN [stack |-> SubSeq(stack, 1, Len(stack) - 1),
                     emitted |-> <<"_NEWLINES", "_DEDENT">>,
                     error |-> indent # stack[Len(stack) - 1]]
               ELSE [stack |-> stack, emitted |-> <<"_NEWLINES">>, error |-> FALSE]

\* Indenter.handle_NL with paren_level = 0: the token is yielded, then the
\* _INDENT or the _DEDENTs; indexing [1] of a split without '\n' raises
\* IndexError, a width that is on no level raises the dedent error
handle_NL(stack, token) ==
    LET parts == rsplit_newline(token)
    IN IF Len(parts) < 2
       THEN [stack |-> stack, emitted |-> <<"_NEWLINES">>, error |-> TRUE]
       ELSE LET indent == count(parts[2], SP) + count(parts[2], TAB) * tab_len
            IN IF indent > Last(stack)
               THEN [stack |-> Append(stack, indent),
                     emitted |-> <<"_NEWLINES", "_INDENT">>, error |-> FALSE]
               ELSE LET popped == pop_until(stack, indent, <<"_NEWLINES">>)
                    IN [stack |-> popped.stack, emitted |-> popped.emitted,
                        error |-> indent # Last(popped.stack)]

\* the line ends _EOL and the blanks _SPACES* of a token
IndentEols == {<<NL>>, <<CR, NL>>, <<CR>>}
IndentBlanks == {<<>>, <<SP, SP>>, <<TAB>>, <<SP, SP, SP, SP>>}
\* the _NEWLINES tokens: one line end and the blanks of the next line, or a
\* blank line of a tab before the line end
NewlineTokens ==
    { e \o b : e \in IndentEols, b \in IndentBlanks } \cup {<<NL, TAB, CR>>}

InitIndent ==
    /\ pc = "indent"
    /\ source \in SeqUpTo(NewlineTokens, MaxNewlines)
    /\ result = [indent_level |-> <<0>>, error |-> FALSE, handled |-> 0]
    /\ left = None
    /\ right = None
    /\ df = None
    /\ entry = None
    /\ dic = None
    /\ with_comments = FALSE
    /\ seekable = FALSE
    /\ buffer = <<>>
    /\ text = <<>>
    /\ parsed = None
    /\ out = <<>>
    /\ lookup = None

\* the next _NEWLINES token goes through handle_NL; left keeps the levels
\* before the step and right what the step yields
HandleNL ==
    /\ pc = "indent"
    /\ ~result.error
    /\ result.handled < Len(source)
    /\ LET step == handle_NL(result.indent_level, source[result.handled + 1])
       IN /\ left' = result.indent_level
          /\ right' = step.emitted
          /\ result' = [indent_level |-> step.stack, error |-> step.error,
                        handled |-> result.handled + 1]
    /\ UNCHANGED <<pc, df>>
    /\ UNCHANGED text_vars

NextIndent == HandleNL

SpecIndent == InitIndent /\ [][NextIndent]_vars

\* the leading width of the line that a token opens: the blanks behind its
\* last line end, a tab counted as 4 columns
LeadingWidth(token) ==
    LET k == last_index(token, Len(token), {NL, CR})
        blanks == SubSeq(token, k + 1, Len(token))
    IN count(blanks, SP) + 4 * count(blanks, TAB)

\* the levels of a stack that are greater than w
LevelsAbove(stack, w) == Cardinality({ i \in 1..Len(stack) : stack[i] > w })

\* C23: a line of leading width w on a stack of top t: w > t pushes w and
\* yields one _INDENT; w = t yields nothing and leaves the stack; w < t pops
\* the levels above w with one _DEDENT each, and fails when w is then not
\* the top
C23_IndenterStep ==
    (pc = "indent" /\ result.handled > 0) =>
        LET w == LeadingWidth(source[result.handled])
            t == Last(left)
            n == LevelsAbove(left, w)
        IN /\ w > t => /\ ~result.error
                       /\ result.indent_level = Append(left, w)
                       /\ right = <<"_NEWLINES", "_INDENT">>
           /\ w = t => /\ ~result.error
                       /\ result.indent_level = left
                       /\ right = <<"_NEWLINES">>
           /\ w < t => /\ result.indent_level = SubSeq(left, 1, Len(left) - n)
                       /\ right = <<"_NEWLINES">> \o [i \in 1..n |-> "_DEDENT"]
                       /\ result.error <=> (w # Last(result.indent_level))

\* the step on the tokens whose line end is or ends in '\n'
IndenterStepBehindNewline ==
    (pc = "indent" /\ result.handled > 0
     /\ \A i \in 1..result.handled : source[i][last_index(source[i], Len(source[i]), {NL, CR})] = NL) => C23_IndenterStep

(***************************************************************************)
(* Serialization without comments, under Spec.                             *)
(***************************************************************************)
\* C24: Dictionary.dump_mordict(buffer, with_comments = False) writes no
\* comment, whichever instance it is anchored to, the Dictionary itself
\* included: the only '%' of the output is that of the marker of a disabled
\* entry
C24_NoCommentWritten ==
    (pc = "dict_dumped" /\ ~with_comments) =>
        count(buffer, "%") = (IF entry.enabled THEN 0 ELSE 1)

\* without comments, nothing anchored below the Dictionary itself is written
NoCommentWrittenBelowDictionary ==
    (pc = "dict_dumped" /\ ~with_comments) =>
        count(buffer, "%") =
            (IF entry.enabled THEN 0 ELSE 1) + NumNonEmpty(dic.comments)

(***************************************************************************)
(* SpecLint: the command `dict lint` on the paths it is given              *)
(* (src/pyksnk/cli.py, cmd_dict_lint).  For each path the file is read     *)
(* and parsed, then opened for writing, which empties it, then written.    *)
(* An error of the parse is either a lark.ParseError, which the command    *)
(* reports before it goes on to the next path, or another error of Lark    *)
(* (of the lexer, of the transformer), which ends the command; which one   *)
(* it is depends on the text and on the version of Lark.  A file that      *)
(* cannot be read ends the command too.                                    *)
(***************************************************************************)
\* MorDict_Base.print_mordict() of a Dictionary: dump_mordict into a StringIO
print_mordict(self) == Dictionary_dump_mordict(<<>>, self, TRUE, TRUE)

\* the contents of the files: nothing, texts that are written back as they
\* are, a text that is written back otherwise, texts that break the grammar
LintTexts ==
    { <<>>,
      <<"a", TAB, "{", "}", NL>>,
      LineText(BracedLine),
      <<"a", TAB, "{", "}", SP, SP, "=", "s", "=", NL, NL>>,
      <<"a", TAB, "[", "s", SP, "n", "]", NL>>,
      <<"a", TAB, "{", "}", NL, "{", "}", NL>> }

LintFiles == [text : LintTexts, readable : BOOLEAN]

\* where the command goes after the file is closed
lint_next(i, n) == IF i < n THEN "lint_read" ELSE "lint_done"

\* a command that opens the file for writing whatever the parse gave
lint_after_parse_open(res, caught, i, n) == "lint_open"

\* where the command goes after parse(f.name, f.read()): on, to the second
\* `with`; to the next path behind the handler of lark.ParseError; out
lint_after_parse(res, caught, i, n) ==
    IF res.ok THEN "lint_open"
    ELSE IF caught THEN lint_next(i, n)
    ELSE "lint_aborted"

InitLint ==
    /\ source \in SeqUpTo(LintFiles, MaxFiles)
    /\ pc = lint_next(0, Len(source))
    /\ result = [files |-> [i \in 1..Len(source) |-> source[i].text],
                 i |-> 1, opened |-> {}, current_dic |-> None]
    /\ left = None
    /\ right = None
    /\ df = None
    /\ entry = None
    /\ dic = None
    /\ with_comments = TRUE
    /\ seekable = TRUE
    /\ buffer = <<>>
    /\ text = <<>>
    /\ parsed = None
    /\ out = <<>>
    /\ lookup = None

\* with open(pf, "r") as f: current_dic = mordict.parse(f.name, f.read())
LintRead ==
    /\ pc = "lint_read"
    /\ IF ~source[result.i].readable
       THEN /\ pc' = "lint_aborted"
            /\ UNCHANGED result
       ELSE \E caught \in BOOLEAN :
            LET res == parse(DictName, result.files[result.i])
                to == lint_after_parse(res, caught, result.i, Len(source))
            IN /\ pc' = to
               /\ result' = [result EXCEPT
                                !.current_dic = IF res.ok THEN res.dic ELSE @,
                                !.i = IF to = "lint_read" THEN @ + 1 ELSE @]
    /\ UNCHANGED <<left, right, df>>
    /\ UNCHANGED text_vars

\* with open(pf, "w") as f: the file is emptied
LintOpen ==
    /\ pc = "lint_open"
    /\ result' = [result EXCEPT !.files[result.i] = <<>>,
                                !.opened = @ \cup {result.i}]
    /\ pc' = "lint_write"
    /\ UNCHANGED <<left, right, df>>
    /\ UNCHANGED text_vars

\* f.write(current_dic.print_mordict()), and the file is closed
LintWrite ==
    /\ pc = "lint_write"
    /\ result.current_dic # None
    /\ pc' = lint_next(result.i, Len(source))
    /\ result' = [result EXCEPT !.files[result.i] = print_mordict(result.current_dic),
                                !.i = IF result.i < Len(source) THEN @ + 1 ELSE @]
    /\ UNCHANGED <<left, right, df>>
    /\ UNCHANGED text_vars

NextLint ==
    \/ LintRead
    \/ LintOpen
    \/ LintWrite

SpecLint == InitLint /\ [][NextLint]_vars

\* the text that a file is to hold when it has been linted
Linted(t) == print_mordict(parse(DictName, t).dic)

TableRoundTrip ==
    /\ pc = "src_parsed"
    /\ parsed.ok
    /\ \E rnd \in [1..Len(parsed.dic.contents) -> gen_rand_neg \X gen_rand_neg] :
          /\ df' = to_dataframe(parsed.dic, rnd)
          /\ right' = update_with_dataframe(parsed.dic, df')
    /\ left' = parsed.dic
    /\ pc' = "round_tripped"
    /\ UNCHANGED result
    /\ UNCHANGED text_vars

NextRound ==
    \/ ParseSource
    \/ TableRoundTrip

SpecRound == InitParse /\ [][NextRound]_vars

\* C26: the serialization with comments of a parsed Dictionary is the same
\* text after d.update_with_dataframe(d.to_dataframe()) as before, the
\* comments anchored to its Phon, Cat, Sem and Gloss included
C26_TableKeepsSerialization ==
    pc = "round_tripped" =>
        /\ Dictionary_dump_mordict(<<>>, right, TRUE, TRUE)
              = Dictionary_dump_mordict(<<>>, left, TRUE, TRUE)
        /\ Dictionary_dump_mordict(<<>>, right, TRUE, FALSE)
              = Dictionary_dump_mordict(<<>>, left, TRUE, FALSE)
        /\ \A i \in 1..Len(left.contents) :
              /\ right.contents[i].phon = left.contents[i].phon
              /\ right.contents[i].cat = left.contents[i].cat
              /\ right.contents[i].sem = left.contents[i].sem
              /\ right.contents[i].gloss = left.contents[i].gloss

\* an entry with a comment behind its Sem went through the table
C26_Witness ==
    /\ pc = "round_tripped"
    /\ Len(right.contents) = 1
    /\ right.contents[1].sem.value # <<>>
    /\ right.contents[1].sem.comments # <<>>
    /\ right.contents[1].sem.comments[1].value # <<>>

(***************************************************************************)
(* What the masking leaves of a group, under SpecMask.                     *)
(***************************************************************************)
\* the entries of the fingerprint group of the i-th entry
GroupOf(es, i) == { j \in 1..Len(es) : Fingerprint(es[j]) = Fingerprint(es[i]) }

\* the i-th entry scores the maximum of its group
AtGroupMaximum(es, i) == \A j \in GroupOf(es, i) : Score(es[j]) <= Score(es[i])

\* C27: when del_redundant has been applied to every group, every row that
\* scores the maximum of its group keeps its enabled flag, the rows tied at
\* the maximum all of them, so that each group keeps a row the pass did not
\* change; and no flag goes from false to true
C27_GroupNeverEmptied ==
    (pc = "masked" /\ result.ok) =>
        /\ Len(result.frame.data) = Len(dic.contents)
        /\ \A i \in 1..Len(dic.contents) :
              /\ AtGroupMaximum(dic.contents, i) =>
                    row_get(result.frame, i, "enabled") = dic.contents[i].enabled
              /\ \E j \in GroupOf(dic.contents, i) :
                    row_get(result.frame, j, "enabled") = dic.contents[j].enabled
              /\ row_get(result.frame, i, "enabled") => dic.contents[i].enabled

\* of two rows of one group above the threshold, the one that scores less is
\* masked and the one at the maximum is kept
C27_Witness ==
    /\ pc = "masked"
    /\ result.ok
    /\ Len(dic.contents) = 2
    /\ Fingerprint(dic.contents[1]) = Fingerprint(dic.contents[2])
    /\ Score(dic.contents[1]) < Score(dic.contents[2])
    /\ row_get(df, 1, "touch")
    /\ row_get(df, 2, "touch")
    /\ dic.contents[1].enabled
    /\ dic.contents[2].enabled
    /\ ~row_get(result.frame, 1, "enabled")
    /\ row_get(result.frame, 2, "enabled")

(***************************************************************************)
(* SpecText: the text of a sentence is parsed by the grammar of            *)
(* src/pyksnk/morcomb.py (contextual lexer, indenter, LALR parser,         *)
(* transformer), the Sentence is printed by Sentence.__str__ and the text  *)
(* printed is parsed again.  A result is a record [ok, pos, val, stack]:   *)
(* pos is the index of the next character, stack the levels of the         *)
(* indenter.                                                               *)
(***************************************************************************)
\* the characters of _SPACES, common.WS_INLINE
SPACES == {SP, TAB}

MSuccess(p, v, st) == [ok |-> TRUE, pos |-> p, val |-> v, stack |-> st]

\* the text has the literal lit at i
StartsWith(t, i, lit) ==
    i + Len(lit) - 1 <= Len(t) /\ SubSeq(t, i, i + Len(lit) - 1) = lit

\* the end of one _EOL, /(\r\n?|\r?\n)/, read at i
eol_end(t, i) == IF t[i] = CR /\ At(t, i + 1, NL) THEN i + 2 ELSE i + 1

RECURSIVE scan_newlines(_, _)
\* the end of the longest match of _NEWLINES from i
scan_newlines(t, i) ==
    IF AtAny(t, i, EOL_CHARS)
    THEN scan_newlines(t, ScanWhile(t, eol_end(t, i), SPACES))
    ELSE i

\* the _NEWLINES token at i through the indenter: val tells the _INDENT or
\* the number of _DEDENT that follow the token
newlines(t, i, stack) ==
    IF ~AtAny(t, i, EOL_CHARS) THEN Failure
    ELSE LET j == scan_newlines(t, i)
             step == handle_NL(stack, SubSeq(t, i, j - 1))
         IN IF step.error THEN Failure
            ELSE MSuccess(j, [indent |-> Len(step.stack) > Len(stack),
                              dedents |-> IF Len(stack) > Len(step.stack)
                                          THEN Len(stack) - Len(step.stack) ELSE 0],
                          step.stack)

\* _NEWLINES where the grammar has no block: an _INDENT or a _DEDENT behind
\* the token is an unexpected token
plain_newlines(t, i, stack) ==
    Then(newlines(t, i, stack), LAMBDA n :
         IF n.val.indent \/ n.val.dedents # 0 THEN Failure ELSE n)

\* a line  KEYWORD _SPACES? TILL_EOL _NEWLINES  (line_chi, line_num)
line_till_eol(t, i, stack, keyword) ==
    IF ~StartsWith(t, i, keyword) THEN Failure
    ELSE LET q == ScanWhile(t, i + Len(keyword), SPACES)
             r == ScanUntil(t, q, EOL_CHARS)
         IN IF r = q THEN Failure
            ELSE Then(plain_newlines(t, r, stack), LAMBDA n :
                 MSuccess(n.pos, <<Token("TILL_EOL", SubSeq(t, q, r - 1))>>, n.stack))

RECURSIVE item_strs(_, _, _)
\* item_str*: STR _SPACES?, with STR /\S+/
item_strs(t, i, acc) ==
    IF i <= Len(t) /\ t[i] \notin WHITESPACE
    THEN item_strs(t, ScanWhile(t, ScanUntil(t, i, WHITESPACE), SPACES),
                   Append(acc, Token("STR", SubSeq(t, i, ScanUntil(t, i, WHITESPACE) - 1))))
    ELSE [pos |-> i, val |-> acc]

RECURSIVE str_block(_, _, _, _)
\* (item_str* _NEWLINES)+ _DEDENT, read behind the _INDENT
str_block(t, i, stack, acc) ==
    Then(newlines(t, item_strs(t, i, acc).pos, stack), LAMBDA n :
         IF n.val.indent \/ n.val.dedents > 1 THEN Failure
         ELSE IF n.val.dedents = 1
         THEN MSuccess(n.pos, item_strs(t, i, acc).val, n.stack)
         ELSE IF n.pos > Len(t) THEN MSuccess(n.pos, item_strs(t, i, acc).val, <<0>>)
         ELSE str_block(t, n.pos, n.stack, item_strs(t, i, acc).val))

\* a line  KEYWORD _SPACES? item_str* _NEWLINES (_INDENT (item_str*
\* _NEWLINES)+ _DEDENT)?  (line_comb, line_penn, line_ort)
line_strs(t, i, stack, keyword) ==
    IF ~StartsWith(t, i, keyword) THEN Failure
    ELSE Then(newlines(t, item_strs(t, ScanWhile(t, i + Len(keyword), SPACES), <<>>).pos,
                       stack), LAMBDA n :
         IF n.val.dedents # 0 THEN Failure
         ELSE IF n.val.indent
         THEN str_block(t, n.pos, n.stack,
                        item_strs(t, ScanWhile(t, i + Len(keyword), SPACES), <<>>).val)
         ELSE MSuccess(n.pos,
                       item_strs(t, ScanWhile(t, i + Len(keyword), SPACES), <<>>).val,
                       n.stack))

\* what WORD_CAND stops at: /[^\s^]+/
CAND_STOP == WHITESPACE \cup {"^"}

RECURSIVE word_cands(_, _, _)
\* item_word_candidate (_SEP_WORD_CANDIDATE item_word_candidate)*
word_cands(t, i, acc) ==
    IF ScanUntil(t, i, CAND_STOP) = i THEN Failure
    ELSE IF At(t, ScanUntil(t, i, CAND_STOP), "^")
    THEN word_cands(t, ScanUntil(t, i, CAND_STOP) + 1,
                    Append(acc, Token("WORD_CAND",
                                      SubSeq(t, i, ScanUntil(t, i, CAND_STOP) - 1))))
    ELSE MSuccess(ScanUntil(t, i, CAND_STOP),
                  Append(acc, Token("WORD_CAND",
                                    SubSeq(t, i, ScanUntil(t, i, CAND_STOP) - 1))),
                  <<>>)

\* the rule list_mor with its transformer
list_mor_at(t, i) ==
    Then(word_cands(t, i, <<>>), LAMBDA r : MSuccess(r.pos, list_mor(r.val), <<>>))

RECURSIVE mor_header(_, _, _)
\* list_mor (_SPACES list_mor)* _SPACES?
mor_header(t, i, acc) ==
    Then(list_mor_at(t, i), LAMBDA r :
         IF ScanWhile(t, r.pos, SPACES) > r.pos
            /\ ScanWhile(t, r.pos, SPACES) <= Len(t)
            /\ t[ScanWhile(t, r.pos, SPACES)] \notin WHITESPACE
         THEN mor_header(t, ScanWhile(t, r.pos, SPACES), Append(acc, r.val))
         ELSE MSuccess(ScanWhile(t, r.pos, SPACES), Append(acc, r.val), <<>>))

\* list_mor* of a row of the block: the rule has no blank between two list_mor
mor_row(t, i, acc) ==
    IF i <= Len(t) /\ t[i] \notin WHITESPACE
    THEN Then(list_mor_at(t, i), LAMBDA r : MSuccess(r.pos, Append(acc, r.val), <<>>))
    ELSE MSuccess(i, acc, <<>>)

RECURSIVE mor_block(_, _, _, _)
\* (list_mor* _NEWLINES)+ _DEDENT, read behind the _INDENT
mor_block(t, i, stack, acc) ==
    Then(mor_row(t, i, acc), LAMBDA row :
    Then(newlines(t, row.pos, stack), LAMBDA n :
         IF n.val.indent \/ n.val.dedents > 1 THEN Failure
         ELSE IF n.val.dedents = 1 THEN MSuccess(n.pos, row.val, n.stack)
         ELSE IF n.pos > Len(t) THEN MSuccess(n.pos, row.val, <<0>>)
         ELSE mor_block(t, n.pos, n.stack, row.val)))

\* line_mor
line_mor(t, i, stack) ==
    IF ~StartsWith(t, i, <<"%", "m", "o", "r", ":">>) THEN Failure
    ELSE Then(mor_header(t, ScanWhile(t, i + 5, SPACES), <<>>), LAMBDA h :
         Then(newlines(t, h.pos, stack), LAMBDA n :
              IF n.val.dedents # 0 THEN Failure
              ELSE IF n.val.indent THEN mor_block(t, n.pos, n.stack, h.val)
              ELSE MSuccess(n.pos, h.val, n.stack)))

\* sentence: line_chi line_mor line_comb line_penn line_ort line_num, and
\* the transformer's sentence on the trees of the lines
sentence_at(t, i, stack) ==
    Then(line_till_eol(t, i, stack, <<"*", "C", "H", "I", ":">>), LAMBDA chi :
    Then(line_mor(t, chi.pos, chi.stack), LAMBDA mor :
    Then(line_strs(t, mor.pos, mor.stack, <<"%", "c", "o", "m", "b", ":">>), LAMBDA comb :
    Then(line_strs(t, comb.pos, comb.stack, <<"%", "p", "e", "n", "n", ":">>), LAMBDA penn :
    Then(line_strs(t, penn.pos, penn.stack, <<"%", "o", "r", "t", ":">>), LAMBDA ort :
    Then(line_till_eol(t, ort.pos, ort.stack, <<"@", "G", ":">>), LAMBDA num :
         MSuccess(num.pos,
                  sentence(<<Tree("line_chi", chi.val), Tree("line_mor", mor.val),
                             Tree("line_comb", comb.val), Tree("line_penn", penn.val),
                             Tree("line_ort", ort.val), Tree("line_num", num.val)>>),
                  num.stack)))))))

\* morcomb.parse on the text of one sentence: the Sentence of the Morcomb,
\* or the error Lark raises
parse_sentence(t) ==
    Then(sentence_at(t, 1, <<0>>), LAMBDA r :
         IF r.pos <= Len(t) THEN Failure ELSE [ok |-> TRUE, val |-> r.val])

RECURSIVE join(_, _)
\* sep.join(parts)
join(sep, parts) ==
    IF parts = <<>> THEN <<>>
    ELSE IF Len(parts) = 1 THEN parts[1]
    ELSE parts[1] \o sep \o join(sep, Tail(parts))

\* WordAnalysisCandidates.__str__
WordAnalysisCandidates_str(self) == join(<<"^">>, self.alts)

\* the members of li, every one kept
filter_all(li) == li

\* filter(None, li): the members that are true; None and '' are not, an
\* instance of WordAnalysisCandidates is
filter_None(li) == SelectSeq(li, LAMBDA x : x # None /\ x # <<>>)

\* Word.list_columns_from_words
list_columns_from_words(words) ==
    << [i \in 1..Len(words) |-> words[i].mor_candidates],
       [i \in 1..Len(words) |-> words[i].comb],
       [i \in 1..Len(words) |-> words[i].penn],
       [i \in 1..Len(words) |-> words[i].ort] >>

\* str of a cell: of a str itself, of None the text 'None'
cell_str(x) == IF x = None THEN <<"N", "o", "n", "e">> ELSE x

\* filter_spacer of Sentence.__str__
filter_spacer(li) ==
    join(<<SP>>, [i \in 1..Len(filter_None(li)) |-> cell_str(filter_None(li)[i])])

\* filter_tabber of Sentence.__str__
filter_tabber(li) ==
    join(<<NL, TAB>>,
         [i \in 1..Len(filter_None(li)) |->
             IF filter_None(li)[i] = None THEN cell_str(None)
             ELSE WordAnalysisCandidates_str(filter_None(li)[i])])

\* Sentence.__str__
Sentence_str(self) ==
    <<"*", "C", "H", "I", ":", TAB>> \o self.chi \o <<NL>>
    \o <<"%", "m", "o", "r", ":", TAB>>
    \o filter_tabber(list_columns_from_words(self.words)[1]) \o <<NL>>
    \o <<"%", "c", "o", "m", "b", ":", TAB>>
    \o filter_spacer(list_columns_from_words(self.words)[2]) \o <<NL>>
    \o <<"%", "p", "e", "n", "n", ":", TAB>>
    \o filter_spacer(list_columns_from_words(self.words)[3]) \o <<NL>>
    \o <<"%", "o", "r", "t", ":", TAB>>
    \o filter_spacer(list_columns_from_words(self.words)[4]) \o <<NL>>
    \o <<"@", "G", ":", TAB>> \o self.id_str \o <<NL>>

\* the text of a column of %comb, %penn or %ort laid out in its rows: the
\* cells of a row parted by a blank, a continuation row behind a tab
SrcStrColumn(rows) ==
    join(<<NL, TAB>>,
         [r \in 1..Len(rows) |->
             join(<<SP>>, [k \in 1..Len(rows[r]) |-> rows[r][k].value])])

\* the text of the column %mor: in a continuation row one cell only
SrcMorColumn(rows) ==
    join(<<SP>>, [k \in 1..Len(rows[1]) |-> WordAnalysisCandidates_str(rows[1][k])])
    \o Flatten([r \in 1..(Len(rows) - 1) |->
                  IF rows[r + 1] = <<>> THEN <<NL, TAB>>
                  ELSE Flatten([k \in 1..Len(rows[r + 1]) |->
                                   <<NL, TAB>> \o WordAnalysisCandidates_str(rows[r + 1][k])])])

\* the text of the sentence that src lays out
SentenceSourceText(src) ==
    <<"*", "C", "H", "I", ":", TAB>> \o src.chi \o <<NL>>
    \o <<"%", "m", "o", "r", ":", TAB>> \o SrcMorColumn(src.mor) \o <<NL>>
    \o <<"%", "c", "o", "m", "b", ":", TAB>> \o SrcStrColumn(src.comb) \o <<NL>>
    \o <<"%", "p", "e", "n", "n", ":", TAB>> \o SrcStrColumn(src.penn) \o <<NL>>
    \o <<"%", "o", "r", "t", ":", TAB>> \o SrcStrColumn(src.ort) \o <<NL>>
    \o <<"@", "G", ":", TAB>> \o src.num \o <<NL>>

InitText ==
    /\ pc = "text_source"
    /\ \E lm \in ColumnLayoutsWithin(1) :
       \E lc \in ColumnLayoutsWithin(0), lp \in ColumnLayoutsWithin(0),
          lo \in ColumnLayoutsWithin(0) :
       \E u \in {<<"u">>, <<"u", SP, "w", SP>>} :
          source = [chi |-> u, num |-> <<"7">>,
                    mor |-> ColumnRows("m", lm.h, lm.c, lm.block, MorCell),
                    comb |-> ColumnRows("c", lc.h, lc.c, lc.block, StrCell),
                    penn |-> ColumnRows("p", lp.h, lp.c, lp.block, StrCell),
                    ort |-> ColumnRows("o", lo.h, lo.c, lo.block, StrCell)]
    /\ text = SentenceSourceText(source)
    /\ left = None
    /\ right = None
    /\ df = None
    /\ result = None
    /\ entry = None
    /\ dic = None
    /\ with_comments = FALSE
    /\ seekable = FALSE
    /\ buffer = <<>>
    /\ parsed = None
    /\ out = <<>>
    /\ lookup = None

\* morcomb.parse(text)
ParseSentenceText ==
    /\ pc = "text_source"
    /\ parsed' = parse_sentence(text)
    /\ pc' = "sentence_parsed"
    /\ UNCHANGED <<entry, dic, with_comments, seekable, buffer, text, out, source, lookup>>
    /\ UNCHANGED value_vars

\* str(s) of the Sentence parsed
PrintSentence ==
    /\ pc = "sentence_parsed"
    /\ parsed.ok
    /\ out' = Sentence_str(parsed.val)
    /\ pc' = "sentence_printed"
    /\ UNCHANGED <<entry, dic, with_comments, seekable, buffer, text, parsed, source, lookup>>
    /\ UNCHANGED value_vars

\* morcomb.parse(str(s))
ReparseSentence ==
    /\ pc = "sentence_printed"
    /\ result' = parse_sentence(out)
    /\ pc' = "sentence_reparsed"
    /\ UNCHANGED <<left, right, df>>
    /\ UNCHANGED text_vars

NextText ==
    \/ ParseSentenceText
    \/ PrintSentence
    \/ ReparseSentence

SpecText == InitText /\ [][NextText]_vars

\* the parser of the text gives the Sentence that the transformer builds
\* from the cells of the rows
TextParseBuildsSentence ==
    pc = "sentence_parsed" =>
        /\ parsed.ok
        /\ parsed.val = sentence(sentence_trees(source))

\* C28: the Sentence parsed from str(s) has the identifier, the utterance
\* and the words of s, each word with its candidates and its comb, penn and
\* ort cells at the same position
C28_SentenceRoundTrip ==
    pc = "sentence_reparsed" =>
        /\ result.ok
        /\ result.val.id_str = parsed.val.id_str
        /\ result.val.chi = parsed.val.chi
        /\ Len(result.val.words) = Len(parsed.val.words)
        /\ \A i \in 1..Len(parsed.val.words) :
              /\ result.val.words[i].mor_candidates = parsed.val.words[i].mor_candidates
              /\ result.val.words[i].comb = parsed.val.words[i].comb
              /\ result.val.words[i].penn = parsed.val.words[i].penn
              /\ result.val.words[i].ort = parsed.val.words[i].ort

\* a sentence of two words, the second without a cell in %comb and in %mor,
\* went through its text
C28_Witness ==
    /\ pc = "sentence_reparsed"
    /\ result.ok
    /\ Len(parsed.val.words) = 2
    /\ parsed.val.words[2].comb = None
    /\ parsed.val.words[2].mor_candidates = None
    /\ parsed.val.words[2].ort # None
    /\ result.val.words[2].comb = None
    /\ Len(result.val.words[1].mor_candidates.alts) = 2

\* in a Sentence that parse builds the cells that a column lacks are at its
\* end: no word lacks a cell that a later word has
ParsedColumnsHaveNoHole ==
    pc = "sentence_parsed" /\ parsed.ok =>
        \A i \in 1..Len(parsed.val.words), j \in 1..Len(parsed.val.words) :
            i < j =>
                /\ parsed.val.words[i].mor_candidates = None
                       => parsed.val.words[j].mor_candidates = None
                /\ (parsed.val.words[i].comb = None \/ parsed.val.words[i].comb = <<>>)
                       => parsed.val.words[j].comb = None
                /\ (parsed.val.words[i].penn = None \/ parsed.val.words[i].penn = <<>>)
                       => parsed.val.words[j].penn = None
                /\ (parsed.val.words[i].ort = None \/ parsed.val.words[i].ort = <<>>)
                       => parsed.val.words[j].ort = None

(***************************************************************************)
(* The instances of the sentence-annotation model and the lists they hold. *)
(* left is the heap, the lists by their address; right is the instances    *)
(* built so far, each field holding the address of its list; result tells  *)
(* the last append and keeps the heap before it.                           *)
(***************************************************************************)
MaxInstances == 3
MaxAppends == 2

\* the lists that the default arguments are evaluated to, once, when the
\* methods are defined: the alts of WordAnalysisCandidates([]) of
\* Word.__init__, words = [] of Sentence.__init__, and preambles = [],
\* sentences = [], postambles = [] of Morcomb.__init__
DefaultAlts == 1
DefaultWords == 2
DefaultPreambles == 3
DefaultSentences == 4
DefaultPostambles == 5

\* the lists a caller hands over
GivenLists == {<<>>, <<"a">>}

\* Word.__init__: without argument the field is the default object, with
\* WordAnalysisCandidates(alts) an object with a list of its own, allocated
\* at the address a
Word_init(defaulted, a) ==
    [kind |-> "Word", defaulted |-> defaulted,
     fields |-> [mor_candidates |-> IF defaulted THEN DefaultAlts ELSE a]]

\* Sentence.__init__: self.words = words, the default list or the list given
Sentence_init(defaulted, a) ==
    [kind |-> "Sentence", defaulted |-> defaulted,
     fields |-> [words |-> IF defaulted THEN DefaultWords ELSE a]]

\* Morcomb.__init__: the three fields are the default lists or the lists
\* given, allocated at a, a + 1 and a + 2
Morcomb_init(defaulted, a) ==
    [kind |-> "Morcomb", defaulted |-> defaulted,
     fields |-> [preambles |-> IF defaulted THEN DefaultPreambles ELSE a,
                 sentences |-> IF defaulted THEN DefaultSentences ELSE a + 1,
                 postambles |-> IF defaulted THEN DefaultPostambles ELSE a + 2]]

InitShare ==
    /\ pc = "built"
    /\ left = <<<<>>, <<>>, <<>>, <<>>, <<>>>>
    /\ right = <<>>
    /\ result = [inst |-> 0, field |-> "", before |-> <<>>, appends |-> 0]
    /\ df = None
    /\ entry = None
    /\ dic = None
    /\ with_comments = FALSE
    /\ seekable = FALSE
    /\ buffer = <<>>
    /\ text = <<>>
    /\ parsed = None
    /\ out = <<>>
    /\ source = None
    /\ lookup = None

\* Word() or Word(WordAnalysisCandidates(alts))
NewWord ==
    /\ Len(right) < MaxInstances
    /\ \E defaulted \in BOOLEAN, alts \in GivenLists :
          /\ defaulted => alts = <<>>
          /\ right' = Append(right, Word_init(defaulted, Len(left) + 1))
          /\ left' = IF defaulted THEN left ELSE Append(left, alts)
    /\ pc' = "built"
    /\ UNCHANGED <<df, result>>
    /\ UNCHANGED text_vars

\* Sentence() or Sentence(words = a list of the caller)
NewSentence ==
    /\ Len(right) < MaxInstances
    /\ \E defaulted \in BOOLEAN, words \in GivenLists :
          /\ defaulted => words = <<>>
          /\ right' = Append(right, Sentence_init(defaulted, Len(left) + 1))
          /\ left' = IF defaulted THEN left ELSE Append(left, words)
    /\ pc' = "built"
    /\ UNCHANGED <<df, result>>
    /\ UNCHANGED text_vars

\* Morcomb() or Morcomb(three lists of the caller)
NewMorcomb ==
    /\ Len(right) < MaxInstances
    /\ \E defaulted \in BOOLEAN :
          /\ right' = Append(right, Morcomb_init(defaulted, Len(left) + 1))
          /\ left' = IF defaulted THEN left ELSE left \o <<<<>>, <<>>, <<>>>>
    /\ pc' = "built"
    /\ UNCHANGED <<df, result>>
    /\ UNCHANGED text_vars

\* instance.field.append(x), for a Word  word.mor_candidates.alts.append(x)
AppendTo ==
    /\ result.appends < MaxAppends
    /\ \E i \in 1..Len(right) :
       \E f \in DOMAIN right[i].fields :
          /\ left' = [left EXCEPT ![right[i].fields[f]] = Append(@, "x")]
          /\ result' = [inst |-> i, field |-> f, before |-> left,
                        appends |-> result.appends + 1]
    /\ pc' = "appended"
    /\ UNCHANGED <<right, df>>
    /\ UNCHANGED text_vars

NextShare ==
    \/ NewWord
    \/ NewSentence
    \/ NewMorcomb
    \/ AppendTo

SpecShare == InitShare /\ [][NextShare]_vars

\* C29: an append to a list of one instance leaves the corresponding list
\* of every other instance of its class as it was, whether the instances
\* were built with arguments or with the defaults
C29_NoSharedMutableState ==
    pc = "appended" =>
        \A j \in 1..Len(right) :
            (j # result.inst /\ right[j].kind = right[result.inst].kind) =>
                left[right[j].fields[result.field]]
                    = result.before[right[j].fields[result.field]]

\* an append to a list of an instance that was built with arguments of its
\* own changes no list of another instance
OwnListsAreNotShared ==
    (pc = "appended" /\ ~right[result.inst].defaulted) =>
        \A j \in 1..Len(right) :
            j # result.inst =>
                \A f \in DOMAIN right[j].fields :
                    left[right[j].fields[f]] = result.before[right[j].fields[f]]

(***************************************************************************)
(* Normalization: a source text is parsed and serialized, and the text     *)
(* written is parsed and serialized again.                                 *)
(***************************************************************************)
\* u = parse(name, t).print_mordict()
Normalize ==
    /\ pc = "src_parsed"
    /\ parsed.ok
    /\ out' = print_mordict(parsed.dic)
    /\ pc' = "normalized"
    /\ UNCHANGED <<entry, dic, with_comments, seekable, buffer, text, parsed, source, lookup>>
    /\ UNCHANGED value_vars

\* parse(name, u)
ReparseNormal ==
    /\ pc = "normalized"
    /\ left' = parse(DictName, out)
    /\ pc' = "reparsed"
    /\ UNCHANGED <<right, df, result>>
    /\ UNCHANGED text_vars

\* parse(name, u).print_mordict()
SerializeNormal ==
    /\ pc = "reparsed"
    /\ left.ok
    /\ right' = print_mordict(left.dic)
    /\ pc' = "renormalized"
    /\ UNCHANGED <<left, df, result>>
    /\ UNCHANGED text_vars

NextNorm ==
    \/ ParseSource
    \/ Normalize
    \/ ReparseNormal
    \/ SerializeNormal

SpecNorm == InitParse /\ [][NextNorm]_vars

\* C30: the text u written for a parsed text parses again, and what is
\* written for it is u, character for character
C30_NormalizationIdempotent ==
    /\ pc = "reparsed" => left.ok
    /\ pc = "renormalized" => right = out

\* the text has a comment line without text: '%' and the line end
HasEmptyComment(t) ==
    \E i \in 1..Len(t) : t[i] = "%" /\ (i = Len(t) \/ t[i + 1] \in EOL_CHARS)

\* on a text without empty comment the text written is written again as it is
IdempotentWithoutEmptyComment ==
    ~HasEmptyComment(text) =>
        /\ pc = "reparsed" => left.ok
        /\ pc = "renormalized" => right = out
====
